---- MODULE Spec2Model ----
(***************************************************************************)
(* SQL-to-Redis transformer: the rule registry, the statement classifiers, *)
(* the context builders, the command templates and the direct command      *)
(* generator, modelled over a bounded universe of parsed statements.       *)
(*                                                                         *)
(* A string is a sequence of one-character strings, so that ends_with,     *)
(* to_lowercase, format! and parse::<u64> are computed character by        *)
(* character.  Option<T> is [some |-> FALSE] or [some |-> TRUE, v |-> x].  *)
(* A function whose result depends on HashMap iteration order or on an     *)
(* arithmetic overflow returns the SET of results the build can produce.   *)
(***************************************************************************)
EXTENDS Integers, Sequences, FiniteSets, TLC

VARIABLES rules, templates, sql, result, firstResult, other, calls, pc, returned, operands

vars == <<rules, templates, sql, result, firstResult, other, calls, pc, returned, operands>>

\* ------------------------------------------------------------------------
\* Bounds
\* ------------------------------------------------------------------------

\* number of transform calls made in one behaviour
MaxCalls == 3

\* number of callers that share one transformer and run transform concurrently
NumCallers == 2

\* ------------------------------------------------------------------------
\* Option and string helpers
\* ------------------------------------------------------------------------

None == [some |-> FALSE]

Some(x) == [some |-> TRUE, v |-> x]

UpperChars == <<"A","B","C","D","E","F","G","H","I","J","K","L","M",
                "N","O","P","Q","R","S","T","U","V","W","X","Y","Z">>

LowerChars == <<"a","b","c","d","e","f","g","h","i","j","k","l","m",
                "n","o","p","q","r","s","t","u","v","w","x","y","z">>

ToLowerChar(c) ==
    IF \E i \in 1..26 : UpperChars[i] = c
    THEN LowerChars[CHOOSE i \in 1..26 : UpperChars[i] = c]
    ELSE c

\* str::to_lowercase on ASCII text
to_lowercase(s) == [i \in 1..Len(s) |-> ToLowerChar(s[i])]

\* str::ends_with
ends_with(s, suffix) ==
    /\ Len(suffix) <= Len(s)
    /\ SubSeq(s, Len(s) - Len(suffix) + 1, Len(s)) = suffix

RECURSIVE Join(_, _)
\* [String]::join(sep)
Join(parts, sep) ==
    IF parts = <<>> THEN <<>>
    ELSE IF Len(parts) = 1 THEN parts[1]
    ELSE parts[1] \o sep \o Join(Tail(parts), sep)

SP == <<" ">>

\* string literals of the source
S_key == <<"k","e","y">>
S_value == <<"v","a","l","u","e">>
S_index == <<"i","n","d","e","x">>
S_member == <<"m","e","m","b","e","r">>
S_score == <<"s","c","o","r","e">>
S_field == <<"f","i","e","l","d">>
S_hash == <<"_","_","h","a","s","h">>
S_list == <<"_","_","l","i","s","t">>
S_set == <<"_","_","s","e","t">>
S_zset == <<"_","_","z","s","e","t">>
S_0 == <<"0">>
S_m1 == <<"-","1">>
S_minf == <<"-","i","n","f">>
S_pinf == <<"+","i","n","f">>
S_lparen == <<"(">>

\* ------------------------------------------------------------------------
\* The statement AST (sqlparser), as far as the program reads it
\* ------------------------------------------------------------------------

SingleQuotedString(s) == [t |-> "SingleQuotedString", s |-> s]
Number(n) == [t |-> "Number", s |-> n]
Boolean(b) == [t |-> "Boolean", b |-> b]

Identifier(v) == [t |-> "Identifier", value |-> v]
Value(v) == [t |-> "Value", value |-> v]
BinaryOp(l, o, r) == [t |-> "BinaryOp", left |-> l, op |-> o, right |-> r]

Wildcard == [t |-> "Wildcard"]
UnnamedExpr(e) == [t |-> "UnnamedExpr", expr |-> e]

\* TableFactor::Table { name } with name.0 the parts of the object name
Table(parts) == [t |-> "Table", name |-> parts]
Derived == [t |-> "Derived"]

OrderByExpr(e, asc) == [expr |-> e, asc |-> asc]

\* SetExpr::Select(select); from is the list of TableWithJoins relations
Select(proj, from, sel) ==
    [t |-> "Select", projection |-> proj, from |-> from, selection |-> sel]

\* any other query body (UNION, VALUES, ...)
SetOperation == [t |-> "SetOperation"]

\* SetExpr::Values(rows)
Values(rows) == [t |-> "Values", rows |-> rows]

\* Statement::Query: limit is Option<Expr>, order_by is Option<seq of OrderByExpr>
Query(body, lim, ord) ==
    [kind |-> "Query", body |-> body, limit |-> lim, order_by |-> ord]

Insert(parts, cols, src) ==
    [kind |-> "Insert", table |-> parts, columns |-> cols, source |-> src]

Update(rel, asg, sel) ==
    [kind |-> "Update", table |-> rel, assignments |-> asg, selection |-> sel]

Delete(tbls, from, sel) ==
    [kind |-> "Delete", tables |-> tbls, from |-> from, selection |-> sel]

\* ------------------------------------------------------------------------
\* ast/select.rs
\* ------------------------------------------------------------------------

sel_get_query(stmt) == IF stmt.kind = "Query" THEN Some(stmt) ELSE None

sel_get_select(query) == IF query.body.t = "Select" THEN Some(query.body) ELSE None

\* Option::and_then(sel_get_query(stmt), sel_get_select)
sel_select_of(stmt) ==
    IF sel_get_query(stmt).some THEN sel_get_select(sel_get_query(stmt).v) ELSE None

\* the text of a quoted-string or number literal expression, else None
value_text(e) ==
    IF e.t = "Value" /\ e.value.t \in {"SingleQuotedString", "DoubleQuotedString", "Number"}
    THEN Some(e.value.s)
    ELSE None

\* first part of the object name of a TableFactor::Table
table_factor_name(rel) ==
    IF rel.t = "Table" /\ rel.name # <<>> THEN Some(rel.name[1]) ELSE None

sel_get_table_name(select) ==
    IF select.from # <<>> THEN table_factor_name(select.from[1]) ELSE None

\* expr is Option<Expr>; only a top-level `ident = literal` is recognised
sel_get_field_filter(expr, field_name) ==
    IF /\ expr.some
       /\ expr.v.t = "BinaryOp"
       /\ expr.v.op = "Eq"
       /\ expr.v.left.t = "Identifier"
       /\ to_lowercase(expr.v.left.value) = to_lowercase(field_name)
    THEN value_text(expr.v.right)
    ELSE None

\* fault: the identifier compared with "key" as written, without to_lowercase
sel_get_key_value_case_sensitive(expr) ==
    IF /\ expr.some
       /\ expr.v.t = "BinaryOp"
       /\ expr.v.op = "Eq"
       /\ expr.v.left.t = "Identifier"
       /\ expr.v.left.value = S_key
    THEN value_text(expr.v.right)
    ELSE None

sel_get_key_value(expr) ==
    IF /\ expr.some
       /\ expr.v.t = "BinaryOp"
       /\ expr.v.op = "Eq"
       /\ expr.v.left.t = "Identifier"
       /\ to_lowercase(expr.v.left.value) = S_key
    THEN value_text(expr.v.right)
    ELSE None

sel_get_field_name(item) ==
    IF item.t = "UnnamedExpr" /\ item.expr.t = "Identifier"
    THEN Some(item.expr.value)
    ELSE None

\* filter_map(sel_get_field_name) over the projection
sel_get_field_names(items) ==
    SelectSeq([i \in 1..Len(items) |-> sel_get_field_name(items[i])],
              LAMBDA o : o.some)

sel_is_wildcard(item) == item.t = "Wildcard"

IsDigit(c) == c \in {"0","1","2","3","4","5","6","7","8","9"}

DigitVal(c) == CHOOSE d \in 0..9 : <<"0","1","2","3","4","5","6","7","8","9">>[d + 1] = c

\* a u64 is held as its decimal digits without leading zeros, which is also
\* what u64::to_string prints
RECURSIVE StripZeros(_)
StripZeros(s) == IF Len(s) > 1 /\ s[1] = "0" THEN StripZeros(Tail(s)) ELSE s

RECURSIVE LexLessEq(_, _)
\* digit strings of equal length, compared from the most significant digit
LexLessEq(a, b) ==
    IF a = <<>> THEN TRUE
    ELSE IF DigitVal(a[1]) < DigitVal(b[1]) THEN TRUE
    ELSE IF DigitVal(a[1]) > DigitVal(b[1]) THEN FALSE
    ELSE LexLessEq(Tail(a), Tail(b))

DecLessEq(a, b) == Len(a) < Len(b) \/ (Len(a) = Len(b) /\ LexLessEq(a, b))

\* u64::MAX in decimal
S_u64max == <<"1","8","4","4","6","7","4","4","0","7","3","7","0","9","5","5","1","6","1","5">>

\* the digits of s as a u64, None when s is empty, has a non-digit or
\* exceeds u64::MAX
parse_digits(s) ==
    IF s # <<>> /\ (\A i \in 1..Len(s) : IsDigit(s[i])) /\ DecLessEq(StripZeros(s), S_u64max)
    THEN Some(StripZeros(s))
    ELSE None

\* str::parse::<u64>().ok(): decimal digits after an optional '+'
parse_u64(s) ==
    IF s # <<>> /\ s[1] = "+" THEN parse_digits(Tail(s)) ELSE parse_digits(s)

RECURSIVE DecBorrow(_)
\* the digits of n - 1 for n > 0, a leading zero possibly left
DecBorrow(n) ==
    IF n[Len(n)] # "0"
    THEN SubSeq(n, 1, Len(n) - 1)
         \o << <<"0","1","2","3","4","5","6","7","8","9">>[DigitVal(n[Len(n)])] >>
    ELSE DecBorrow(SubSeq(n, 1, Len(n) - 1)) \o <<"9">>

sel_get_limit(query) ==
    IF /\ query.limit.some
       /\ query.limit.v.t = "Value"
       /\ query.limit.v.value.t = "Number"
    THEN parse_u64(query.limit.v.value.s)
    ELSE None

CmpOps == {"Gt", "GtEq", "Lt", "LtEq"}

\* the (min, max) pair of one `score op N` comparison
score_bounds(op, n) ==
    CASE op = "Gt"   -> <<S_lparen \o n, S_pinf>>
      [] op = "GtEq" -> <<n, S_pinf>>
      [] op = "Lt"   -> <<S_minf, S_lparen \o n>>
      [] op = "LtEq" -> <<S_minf, n>>

sel_get_score_range(expr) ==
    IF /\ expr.some
       /\ expr.v.t = "BinaryOp"
       /\ expr.v.left.t = "Identifier"
       /\ to_lowercase(expr.v.left.value) = S_score
       /\ expr.v.op \in CmpOps
       /\ expr.v.right.t = "Value"
       /\ expr.v.right.value.t = "Number"
    THEN Some(score_bounds(expr.v.op, expr.v.right.value.s))
    ELSE None

\* any ORDER BY term that is `score` with an explicit DESC
sel_is_order_by_score_desc(query) ==
    /\ query.order_by.some
    /\ \E i \in 1..Len(query.order_by.v) :
          LET oe == query.order_by.v[i] IN
          /\ oe.expr.t = "Identifier"
          /\ to_lowercase(oe.expr.value) = S_score
          /\ oe.asc.some
          /\ ~oe.asc.v

\* ------------------------------------------------------------------------
\* pattern/matchers/select.rs
\* ------------------------------------------------------------------------

is_wildcard_select(stmt) ==
    /\ sel_select_of(stmt).some
    /\ Len(sel_select_of(stmt).v.projection) = 1
    /\ sel_is_wildcard(sel_select_of(stmt).v.projection[1])

is_single_field_select(stmt) ==
    /\ sel_select_of(stmt).some
    /\ Len(sel_select_of(stmt).v.projection) = 1
    /\ sel_get_field_name(sel_select_of(stmt).v.projection[1]).some

is_multi_field_select(stmt) ==
    /\ sel_select_of(stmt).some
    /\ Len(sel_select_of(stmt).v.projection) > 1
    /\ \A i \in 1..Len(sel_select_of(stmt).v.projection) :
          sel_get_field_name(sel_select_of(stmt).v.projection[i]).some

\* Option<String> table name of a SELECT statement
select_table_name(stmt) ==
    IF sel_select_of(stmt).some THEN sel_get_table_name(sel_select_of(stmt).v) ELSE None

select_is_hash_table(stmt) ==
    select_table_name(stmt).some /\ ends_with(select_table_name(stmt).v, S_hash)

select_is_list_table(stmt) ==
    select_table_name(stmt).some /\ ends_with(select_table_name(stmt).v, S_list)

select_is_set_table(stmt) ==
    select_table_name(stmt).some /\ ends_with(select_table_name(stmt).v, S_set)

select_is_zset_table(stmt) ==
    select_table_name(stmt).some /\ ends_with(select_table_name(stmt).v, S_zset)

select_is_string_table(stmt) ==
    /\ select_table_name(stmt).some
    /\ ~ends_with(select_table_name(stmt).v, S_hash)
    /\ ~ends_with(select_table_name(stmt).v, S_list)
    /\ ~ends_with(select_table_name(stmt).v, S_set)
    /\ ~ends_with(select_table_name(stmt).v, S_zset)

select_has_key_equals(stmt) ==
    sel_select_of(stmt).some /\ sel_get_key_value(sel_select_of(stmt).v.selection).some

select_has_field_equals(stmt, field_name) ==
    /\ sel_select_of(stmt).some
    /\ sel_get_field_filter(sel_select_of(stmt).v.selection, field_name).some

has_score_range(stmt) ==
    sel_select_of(stmt).some /\ sel_get_score_range(sel_select_of(stmt).v.selection).some

has_order_by_score_desc(stmt) ==
    sel_get_query(stmt).some /\ sel_is_order_by_score_desc(sel_get_query(stmt).v)

has_limit(stmt) ==
    sel_get_query(stmt).some /\ sel_get_query(stmt).v.limit.some

is_string_get(stmt) ==
    is_wildcard_select(stmt) /\ select_is_string_table(stmt) /\ select_has_key_equals(stmt)

is_hash_getall(stmt) ==
    is_wildcard_select(stmt) /\ select_is_hash_table(stmt) /\ select_has_key_equals(stmt)

is_hash_get(stmt) ==
    is_single_field_select(stmt) /\ select_is_hash_table(stmt) /\ select_has_key_equals(stmt)

is_hash_hmget(stmt) ==
    is_multi_field_select(stmt) /\ select_is_hash_table(stmt) /\ select_has_key_equals(stmt)

is_list_getall(stmt) ==
    is_wildcard_select(stmt) /\ select_is_list_table(stmt) /\ select_has_key_equals(stmt)

is_list_get_index(stmt) ==
    /\ is_wildcard_select(stmt)
    /\ select_is_list_table(stmt)
    /\ select_has_key_equals(stmt)
    /\ select_has_field_equals(stmt, S_index)

is_list_get_range(stmt) ==
    /\ is_wildcard_select(stmt)
    /\ select_is_list_table(stmt)
    /\ select_has_key_equals(stmt)
    /\ has_limit(stmt)

is_set_getall(stmt) ==
    is_wildcard_select(stmt) /\ select_is_set_table(stmt) /\ select_has_key_equals(stmt)

is_set_ismember(stmt) ==
    /\ is_wildcard_select(stmt)
    /\ select_is_set_table(stmt)
    /\ select_has_key_equals(stmt)
    /\ select_has_field_equals(stmt, S_member)

\* as is_zset_getall, but false for a statement ordered by score descending
is_zset_getall_unless_reversed(stmt) ==
    /\ is_wildcard_select(stmt)
    /\ select_is_zset_table(stmt)
    /\ select_has_key_equals(stmt)
    /\ ~has_order_by_score_desc(stmt)

is_zset_getall(stmt) ==
    is_wildcard_select(stmt) /\ select_is_zset_table(stmt) /\ select_has_key_equals(stmt)

is_zset_get_score_range(stmt) ==
    /\ is_wildcard_select(stmt)
    /\ select_is_zset_table(stmt)
    /\ select_has_key_equals(stmt)
    /\ has_score_range(stmt)

is_zset_get_reversed(stmt) ==
    /\ is_wildcard_select(stmt)
    /\ select_is_zset_table(stmt)
    /\ select_has_key_equals(stmt)
    /\ has_order_by_score_desc(stmt)

is_string_get_value(stmt) ==
    /\ sel_get_query(stmt).some
    /\ sel_select_of(stmt).some
    /\ select_is_string_table(stmt)
    /\ Len(sel_select_of(stmt).v.projection) = 1
    /\ sel_select_of(stmt).v.projection[1].t = "UnnamedExpr"
    /\ sel_select_of(stmt).v.projection[1].expr.t = "Identifier"
    /\ to_lowercase(sel_select_of(stmt).v.projection[1].expr.value) = S_value
    /\ select_has_key_equals(stmt)

\* ------------------------------------------------------------------------
\* context/select.rs: each builder yields the set of results it can return,
\* a result being None, Some(context) or Panic; a context is a record from
\* template variable names to strings
\* ------------------------------------------------------------------------

Panic == [some |-> FALSE, panic |-> TRUE]

\* Option<String> key of the WHERE clause of a SELECT statement
select_key(stmt) ==
    IF sel_select_of(stmt).some
    THEN sel_get_key_value(sel_select_of(stmt).v.selection)
    ELSE None

StringGetContextBuilder(stmt) ==
    IF select_key(stmt).some
    THEN {Some([key |-> select_key(stmt).v])}
    ELSE {None}

\* not in the sources at hand; takes the key as StringGetContextBuilder does
StringGetValueContextBuilder(stmt) ==
    IF select_key(stmt).some
    THEN {Some([key |-> select_key(stmt).v])}
    ELSE {None}

HashGetAllContextBuilder(stmt) ==
    IF select_key(stmt).some
    THEN {Some([key |-> select_key(stmt).v])}
    ELSE {None}

HashGetContextBuilder(stmt) ==
    IF ~select_key(stmt).some THEN {None}
    ELSE IF sel_select_of(stmt).v.projection = <<>> THEN {Panic}
    ELSE IF ~sel_get_field_name(sel_select_of(stmt).v.projection[1]).some THEN {None}
    ELSE {Some([key |-> select_key(stmt).v,
                field |-> sel_get_field_name(sel_select_of(stmt).v.projection[1]).v])}

HashMultiGetContextBuilder(stmt) ==
    IF ~select_key(stmt).some THEN {None}
    ELSE LET found == sel_get_field_names(sel_select_of(stmt).v.projection)
             fields == [i \in 1..Len(found) |-> found[i].v]
         IN  IF fields = <<>> THEN {None}
             ELSE {Some([key |-> select_key(stmt).v,
                         fields |-> Join(fields, SP),
                         fields_array |->
                            Join([i \in 1..Len(fields) |-> <<"'">> \o fields[i] \o <<"'">>],
                                 <<",", " ">>)])}

ListGetAllContextBuilder(stmt) ==
    IF select_key(stmt).some
    THEN {Some([key |-> select_key(stmt).v, start |-> S_0, stop |-> S_m1])}
    ELSE {None}

ListGetIndexContextBuilder(stmt) ==
    IF ~select_key(stmt).some THEN {None}
    ELSE IF ~sel_get_field_filter(sel_select_of(stmt).v.selection, S_index).some THEN {None}
    ELSE {Some([key |-> select_key(stmt).v,
                index |-> sel_get_field_filter(sel_select_of(stmt).v.selection, S_index).v])}

\* (limit - 1).to_string() on u64: at limit = 0 the subtraction panics in a
\* build with overflow checks and wraps to u64::MAX in a build without
limit_minus_one(limit) ==
    IF limit = S_0 THEN {Panic, Some(S_u64max)} ELSE {Some(StripZeros(DecBorrow(limit)))}

ListGetRangeContextBuilder(stmt) ==
    IF ~select_key(stmt).some THEN {None}
    ELSE IF ~sel_get_limit(sel_get_query(stmt).v).some THEN {None}
    ELSE {IF st.some
          THEN Some([key |-> select_key(stmt).v, start |-> S_0, stop |-> st.v])
          ELSE Panic : st \in limit_minus_one(sel_get_limit(sel_get_query(stmt).v).v)}

SetGetAllContextBuilder(stmt) ==
    IF select_key(stmt).some
    THEN {Some([key |-> select_key(stmt).v])}
    ELSE {None}

SetIsMemberContextBuilder(stmt) ==
    IF ~select_key(stmt).some THEN {None}
    ELSE IF ~sel_get_field_filter(sel_select_of(stmt).v.selection, S_member).some THEN {None}
    ELSE {Some([key |-> select_key(stmt).v,
                member |-> sel_get_field_filter(sel_select_of(stmt).v.selection, S_member).v])}

ZSetGetAllContextBuilder(stmt) ==
    IF select_key(stmt).some
    THEN {Some([key |-> select_key(stmt).v, min |-> S_minf, max |-> S_pinf])}
    ELSE {None}

ZSetGetScoreRangeContextBuilder(stmt) ==
    IF ~select_key(stmt).some THEN {None}
    ELSE IF ~sel_get_score_range(sel_select_of(stmt).v.selection).some THEN {None}
    ELSE {Some([key |-> select_key(stmt).v,
                min |-> sel_get_score_range(sel_select_of(stmt).v.selection).v[1],
                max |-> sel_get_score_range(sel_select_of(stmt).v.selection).v[2]])}

ZSetGetReversedContextBuilder(stmt) ==
    IF select_key(stmt).some
    THEN {Some([key |-> select_key(stmt).v, max |-> S_pinf, min |-> S_minf])}
    ELSE {None}

\* ------------------------------------------------------------------------
\* HashMap<String, String>: a function on the set of its keys; iteration
\* visits the keys in an unspecified order
\* ------------------------------------------------------------------------

RECURSIVE MapOfPairs(_, _)
\* insert (ks[i], vs[i]) for i = 1..Len(ks) in order, later inserts overwrite
MapOfPairs(ks, vs) ==
    IF ks = <<>> THEN << >>
    ELSE LET n == Len(ks)
             rest == MapOfPairs(SubSeq(ks, 1, n - 1), SubSeq(vs, 1, n - 1))
         IN  [k \in (DOMAIN rest) \cup {ks[n]} |-> IF k = ks[n] THEN vs[n] ELSE rest[k]]

\* HashMap::get
MapGet(m, k) == IF k \in DOMAIN m THEN Some(m[k]) ELSE None

\* HashMap::remove
MapRemove(m, k) == [x \in (DOMAIN m) \ {k} |-> m[x]]

\* the orders in which HashMap::iter can visit the keys of m
IterOrders(m) ==
    {p \in [1..Cardinality(DOMAIN m) -> DOMAIN m] :
        \A i, j \in 1..Cardinality(DOMAIN m) : i # j => p[i] # p[j]}

\* ------------------------------------------------------------------------
\* ast/insert.rs
\* ------------------------------------------------------------------------

\* TableObject::TableName(name)
TableName(parts) == [t |-> "TableName", name |-> parts]

ins_get_column_names(stmt) ==
    IF stmt.kind = "Insert" /\ stmt.columns # <<>> THEN Some(stmt.columns) ELSE None

ins_extract_value(expr) ==
    IF expr.t = "Value" /\ expr.value.t \in {"SingleQuotedString", "DoubleQuotedString", "Number"}
    THEN Some(expr.value.s)
    ELSE None

\* row.iter().filter_map(ins_extract_value).collect()
ins_row_strings(row) ==
    LET kept == SelectSeq([i \in 1..Len(row) |-> ins_extract_value(row[i])],
                          LAMBDA o : o.some)
    IN  [i \in 1..Len(kept) |-> kept[i].v]

ins_get_values_as_strings(stmt) ==
    IF /\ stmt.kind = "Insert"
       /\ stmt.source.some
       /\ stmt.source.v.body.t = "Values"
    THEN LET rows == [i \in 1..Len(stmt.source.v.body.rows) |->
                          ins_row_strings(stmt.source.v.body.rows[i])]
         IN  IF rows = <<>> \/ rows[1] = <<>> THEN None ELSE Some(rows)
    ELSE None

ins_get_values_as_maps(stmt) ==
    IF ~ins_get_column_names(stmt).some \/ ~ins_get_values_as_strings(stmt).some THEN None
    ELSE LET columns == ins_get_column_names(stmt).v
             value_rows == ins_get_values_as_strings(stmt).v
             kept == SelectSeq(value_rows, LAMBDA row : Len(row) = Len(columns))
             maps == [i \in 1..Len(kept) |-> MapOfPairs(columns, kept[i])]
         IN  IF maps = <<>> THEN None ELSE Some(maps)

ins_get_column_value(stmt, column_name) ==
    IF ~ins_get_values_as_maps(stmt).some THEN None
    ELSE MapGet(ins_get_values_as_maps(stmt).v[1], column_name)

\* ------------------------------------------------------------------------
\* pattern/matchers/insert.rs
\* ------------------------------------------------------------------------

is_insert(stmt) == stmt.kind = "Insert"

insert_get_table_name(stmt) ==
    IF stmt.kind = "Insert" /\ stmt.table.t = "TableName" /\ stmt.table.name # <<>>
    THEN Some(stmt.table.name[1])
    ELSE None

insert_is_hash_table(stmt) ==
    insert_get_table_name(stmt).some /\ ends_with(insert_get_table_name(stmt).v, S_hash)

insert_is_list_table(stmt) ==
    insert_get_table_name(stmt).some /\ ends_with(insert_get_table_name(stmt).v, S_list)

insert_is_set_table(stmt) ==
    insert_get_table_name(stmt).some /\ ends_with(insert_get_table_name(stmt).v, S_set)

insert_is_zset_table(stmt) ==
    insert_get_table_name(stmt).some /\ ends_with(insert_get_table_name(stmt).v, S_zset)

insert_is_string_table(stmt) ==
    /\ insert_get_table_name(stmt).some
    /\ ~ends_with(insert_get_table_name(stmt).v, S_hash)
    /\ ~ends_with(insert_get_table_name(stmt).v, S_list)
    /\ ~ends_with(insert_get_table_name(stmt).v, S_set)
    /\ ~ends_with(insert_get_table_name(stmt).v, S_zset)

\* required_columns is a sequence of column names
has_columns(stmt, required_columns) ==
    /\ stmt.kind = "Insert"
    /\ \A r \in 1..Len(required_columns) :
          \E c \in 1..Len(stmt.columns) :
             to_lowercase(stmt.columns[c]) = to_lowercase(required_columns[r])

has_exact_columns(stmt, required_columns) ==
    /\ stmt.kind = "Insert"
    /\ Len(stmt.columns) = Len(required_columns)
    /\ \A r \in 1..Len(required_columns) :
          \E c \in 1..Len(stmt.columns) :
             to_lowercase(stmt.columns[c]) = to_lowercase(required_columns[r])

has_values(stmt) ==
    /\ stmt.kind = "Insert"
    /\ stmt.source.some
    /\ stmt.source.v.body.t = "Values"
    /\ stmt.source.v.body.rows # <<>>

is_string_set(stmt) ==
    /\ is_insert(stmt)
    /\ insert_is_string_table(stmt)
    /\ has_exact_columns(stmt, <<S_key, S_value>>)
    /\ has_values(stmt)

is_hash_set(stmt) ==
    /\ is_insert(stmt)
    /\ insert_is_hash_table(stmt)
    /\ has_columns(stmt, <<S_key>>)
    /\ has_values(stmt)

is_list_push(stmt) ==
    /\ is_insert(stmt)
    /\ insert_is_list_table(stmt)
    /\ has_exact_columns(stmt, <<S_key, S_value>>)
    /\ has_values(stmt)

is_set_add(stmt) ==
    /\ is_insert(stmt)
    /\ insert_is_set_table(stmt)
    /\ has_exact_columns(stmt, <<S_key, S_member>>)
    /\ has_values(stmt)

is_zset_add(stmt) ==
    /\ is_insert(stmt)
    /\ insert_is_zset_table(stmt)
    /\ has_exact_columns(stmt, <<S_key, S_member, S_score>>)
    /\ has_values(stmt)

\* ------------------------------------------------------------------------
\* context/insert.rs
\* ------------------------------------------------------------------------

StringSetContextBuilder(stmt) ==
    IF ~ins_get_column_value(stmt, S_key).some THEN {None}
    ELSE IF ~ins_get_column_value(stmt, S_value).some THEN {None}
    ELSE {Some([key |-> ins_get_column_value(stmt, S_key).v,
                value |-> ins_get_column_value(stmt, S_value).v])}

\* "field value" pairs joined by spaces, the pairs in iteration order p of m
format_field_values(m, p) ==
    Join([i \in 1..Len(p) |-> p[i] \o SP \o m[p[i]]], SP)

\* as HashSetContextBuilder, without the removal of the key from the row
HashSetContextBuilder_keeps_key(stmt) ==
    IF ~ins_get_values_as_maps(stmt).some THEN {None}
    ELSE LET row == ins_get_values_as_maps(stmt).v[1] IN
         IF ~MapGet(row, S_key).some THEN {None}
         ELSE {Some([key |-> row[S_key],
                     field_values |-> format_field_values(row, p)]) :
                  p \in IterOrders(row)}

HashSetContextBuilder(stmt) ==
    IF ~ins_get_values_as_maps(stmt).some THEN {None}
    ELSE LET row == ins_get_values_as_maps(stmt).v[1] IN
         IF ~MapGet(row, S_key).some THEN {None}
         ELSE LET field_values == MapRemove(row, S_key) IN
              IF DOMAIN field_values = {} THEN {None}
              ELSE {Some([key |-> row[S_key],
                          field_values |-> format_field_values(field_values, p)]) :
                       p \in IterOrders(field_values)}

ListPushContextBuilder(stmt) ==
    IF ~ins_get_column_value(stmt, S_key).some THEN {None}
    ELSE IF ~ins_get_column_value(stmt, S_value).some THEN {None}
    ELSE {Some([key |-> ins_get_column_value(stmt, S_key).v,
                value |-> ins_get_column_value(stmt, S_value).v])}

\* as SetAddContextBuilder, with the members under the name `member`
SetAddContextBuilder_member(stmt) ==
    IF ~ins_get_column_value(stmt, S_key).some THEN {None}
    ELSE LET values == ins_get_values_as_maps(stmt).v IN
         IF ~MapGet(values[1], S_key).some THEN {None}
         ELSE LET first_key == values[1][S_key]
                  same == SelectSeq(values, LAMBDA row : MapGet(row, S_key) = Some(first_key))
                  have == SelectSeq(same, LAMBDA row : MapGet(row, S_member).some)
                  members == [i \in 1..Len(have) |-> have[i][S_member]]
              IN  IF members = <<>> THEN {None}
                  ELSE {Some([key |-> ins_get_column_value(stmt, S_key).v,
                              member |-> Join(members, SP)])}

SetAddContextBuilder(stmt) ==
    IF ~ins_get_column_value(stmt, S_key).some THEN {None}
    ELSE LET values == ins_get_values_as_maps(stmt).v IN
         IF ~MapGet(values[1], S_key).some THEN {None}
         ELSE LET first_key == values[1][S_key]
                  same == SelectSeq(values, LAMBDA row : MapGet(row, S_key) = Some(first_key))
                  have == SelectSeq(same, LAMBDA row : MapGet(row, S_member).some)
                  members == [i \in 1..Len(have) |-> have[i][S_member]]
              IN  IF members = <<>> THEN {None}
                  ELSE {Some([key |-> ins_get_column_value(stmt, S_key).v,
                              members |-> Join(members, SP)])}

\* as ZSetAddContextBuilder, with the values of member and score exchanged
ZSetAddContextBuilder_member_as_score(stmt) ==
    IF ~ins_get_column_value(stmt, S_key).some THEN {None}
    ELSE IF ~ins_get_column_value(stmt, S_member).some THEN {None}
    ELSE IF ~ins_get_column_value(stmt, S_score).some THEN {None}
    ELSE {Some([key |-> ins_get_column_value(stmt, S_key).v,
                member |-> ins_get_column_value(stmt, S_score).v,
                score |-> ins_get_column_value(stmt, S_member).v])}

ZSetAddContextBuilder(stmt) ==
    IF ~ins_get_column_value(stmt, S_key).some THEN {None}
    ELSE IF ~ins_get_column_value(stmt, S_member).some THEN {None}
    ELSE IF ~ins_get_column_value(stmt, S_score).some THEN {None}
    ELSE {Some([key |-> ins_get_column_value(stmt, S_key).v,
                member |-> ins_get_column_value(stmt, S_member).v,
                score |-> ins_get_column_value(stmt, S_score).v])}

\* ------------------------------------------------------------------------
\* ast/update.rs
\* ------------------------------------------------------------------------

\* AssignmentTarget::ColumnName(object_name)
ColumnName(parts) == [t |-> "ColumnName", name |-> parts]

\* AssignmentTarget::Tuple(..)
TupleTarget == [t |-> "Tuple"]

Assignment(target, value) == [target |-> target, value |-> value]

upd_extract_value(expr) ==
    IF expr.t = "Value" /\ expr.value.t \in {"SingleQuotedString", "DoubleQuotedString", "Number"}
    THEN Some(expr.value.s)
    ELSE None

upd_get_key_value(stmt) ==
    IF /\ stmt.kind = "Update"
       /\ stmt.selection.some
       /\ stmt.selection.v.t = "BinaryOp"
       /\ stmt.selection.v.op = "Eq"
       /\ stmt.selection.v.left.t = "Identifier"
       /\ to_lowercase(stmt.selection.v.left.value) = S_key
    THEN value_text(stmt.selection.v.right)
    ELSE None

upd_get_field_filter(stmt, field_name) ==
    IF /\ stmt.kind = "Update"
       /\ stmt.selection.some
       /\ stmt.selection.v.t = "BinaryOp"
       /\ stmt.selection.v.op = "Eq"
       /\ stmt.selection.v.left.t = "Identifier"
       /\ to_lowercase(stmt.selection.v.left.value) = to_lowercase(field_name)
    THEN value_text(stmt.selection.v.right)
    ELSE None

upd_get_assignments(stmt) ==
    IF stmt.kind # "Update" THEN None
    ELSE LET usable == SelectSeq(stmt.assignments,
                          LAMBDA a : /\ a.target.t = "ColumnName"
                                     /\ a.target.name # <<>>
                                     /\ upd_extract_value(a.value).some)
             field_values ==
                 MapOfPairs([i \in 1..Len(usable) |-> usable[i].target.name[1]],
                            [i \in 1..Len(usable) |-> upd_extract_value(usable[i].value).v])
         IN  IF DOMAIN field_values = {} THEN None ELSE Some(field_values)

upd_get_table_name(stmt) ==
    IF stmt.kind = "Update" THEN table_factor_name(stmt.table) ELSE None

\* ------------------------------------------------------------------------
\* pattern/matchers/update.rs
\* ------------------------------------------------------------------------

is_update(stmt) == stmt.kind = "Update"

update_is_hash_table(stmt) ==
    upd_get_table_name(stmt).some /\ ends_with(upd_get_table_name(stmt).v, S_hash)

update_is_list_table(stmt) ==
    upd_get_table_name(stmt).some /\ ends_with(upd_get_table_name(stmt).v, S_list)

update_is_set_table(stmt) ==
    upd_get_table_name(stmt).some /\ ends_with(upd_get_table_name(stmt).v, S_set)

update_is_zset_table(stmt) ==
    upd_get_table_name(stmt).some /\ ends_with(upd_get_table_name(stmt).v, S_zset)

update_is_string_table(stmt) ==
    /\ upd_get_table_name(stmt).some
    /\ ~ends_with(upd_get_table_name(stmt).v, S_hash)
    /\ ~ends_with(upd_get_table_name(stmt).v, S_list)
    /\ ~ends_with(upd_get_table_name(stmt).v, S_set)
    /\ ~ends_with(upd_get_table_name(stmt).v, S_zset)

update_has_key_equals(stmt) == upd_get_key_value(stmt).some

update_has_field_equals(stmt, field_name) == upd_get_field_filter(stmt, field_name).some

has_assignment(stmt, field_name) ==
    upd_get_assignments(stmt).some /\ field_name \in DOMAIN upd_get_assignments(stmt).v

is_string_update(stmt) ==
    /\ is_update(stmt)
    /\ update_is_string_table(stmt)
    /\ update_has_key_equals(stmt)
    /\ has_assignment(stmt, S_value)

is_hash_update(stmt) ==
    /\ is_update(stmt)
    /\ update_is_hash_table(stmt)
    /\ update_has_key_equals(stmt)
    /\ upd_get_assignments(stmt).some
    /\ DOMAIN upd_get_assignments(stmt).v # {}

is_list_update(stmt) ==
    /\ is_update(stmt)
    /\ update_is_list_table(stmt)
    /\ update_has_key_equals(stmt)
    /\ update_has_field_equals(stmt, S_index)
    /\ has_assignment(stmt, S_value)

is_zset_update(stmt) ==
    /\ is_update(stmt)
    /\ update_is_zset_table(stmt)
    /\ update_has_key_equals(stmt)
    /\ update_has_field_equals(stmt, S_member)
    /\ has_assignment(stmt, S_score)

\* ------------------------------------------------------------------------
\* context/update.rs
\* ------------------------------------------------------------------------

StringUpdateContextBuilder(stmt) ==
    IF ~upd_get_key_value(stmt).some THEN {None}
    ELSE IF ~upd_get_assignments(stmt).some THEN {None}
    ELSE IF ~MapGet(upd_get_assignments(stmt).v, S_value).some THEN {None}
    ELSE {Some([key |-> upd_get_key_value(stmt).v,
                value |-> upd_get_assignments(stmt).v[S_value]])}

HashUpdateContextBuilder(stmt) ==
    IF ~upd_get_key_value(stmt).some THEN {None}
    ELSE IF ~upd_get_assignments(stmt).some THEN {None}
    ELSE LET assignments == upd_get_assignments(stmt).v IN
         IF DOMAIN assignments = {} THEN {None}
         ELSE {Some([key |-> upd_get_key_value(stmt).v,
                     field_values |-> format_field_values(assignments, p)]) :
                  p \in IterOrders(assignments)}

ListUpdateContextBuilder(stmt) ==
    IF ~upd_get_key_value(stmt).some THEN {None}
    ELSE IF ~upd_get_field_filter(stmt, S_index).some THEN {None}
    ELSE IF ~upd_get_assignments(stmt).some THEN {None}
    ELSE IF ~MapGet(upd_get_assignments(stmt).v, S_value).some THEN {None}
    ELSE {Some([key |-> upd_get_key_value(stmt).v,
                index |-> upd_get_field_filter(stmt, S_index).v,
                value |-> upd_get_assignments(stmt).v[S_value]])}

ZSetUpdateContextBuilder(stmt) ==
    IF ~upd_get_key_value(stmt).some THEN {None}
    ELSE IF ~upd_get_field_filter(stmt, S_member).some THEN {None}
    ELSE IF ~upd_get_assignments(stmt).some THEN {None}
    ELSE IF ~MapGet(upd_get_assignments(stmt).v, S_score).some THEN {None}
    ELSE {Some([key |-> upd_get_key_value(stmt).v,
                member |-> upd_get_field_filter(stmt, S_member).v,
                score |-> upd_get_assignments(stmt).v[S_score]])}

\* ------------------------------------------------------------------------
\* ast/delete.rs
\* ------------------------------------------------------------------------

delete_get_table_name(stmt) ==
    IF stmt.kind = "Delete" /\ stmt.from # <<>>
    THEN table_factor_name(stmt.from[1])
    ELSE None

\* only a top-level `key = literal` is recognised
delete_get_key_value(stmt) ==
    IF /\ stmt.kind = "Delete"
       /\ stmt.selection.some
       /\ stmt.selection.v.t = "BinaryOp"
       /\ stmt.selection.v.op = "Eq"
       /\ stmt.selection.v.left.t = "Identifier"
       /\ to_lowercase(stmt.selection.v.left.value) = S_key
    THEN value_text(stmt.selection.v.right)
    ELSE None

RECURSIVE extract_field_condition(_, _)
\* searches through AND nodes, left branch first
extract_field_condition(expr, field_name) ==
    IF expr.t # "BinaryOp" THEN None
    ELSE IF expr.op = "Eq"
         THEN IF /\ expr.left.t = "Identifier"
                 /\ to_lowercase(expr.left.value) = to_lowercase(field_name)
              THEN value_text(expr.right)
              ELSE None
    ELSE IF expr.op = "And"
         THEN IF extract_field_condition(expr.left, field_name).some
              THEN extract_field_condition(expr.left, field_name)
              ELSE extract_field_condition(expr.right, field_name)
    ELSE None

delete_get_field_filter(stmt, field_name) ==
    IF stmt.kind = "Delete" /\ stmt.selection.some
    THEN extract_field_condition(stmt.selection.v, field_name)
    ELSE None

\* ------------------------------------------------------------------------
\* pattern/matchers/delete.rs
\* ------------------------------------------------------------------------

is_delete(stmt) == stmt.kind = "Delete"

delete_is_hash_table(stmt) ==
    delete_get_table_name(stmt).some /\ ends_with(delete_get_table_name(stmt).v, S_hash)

delete_is_list_table(stmt) ==
    delete_get_table_name(stmt).some /\ ends_with(delete_get_table_name(stmt).v, S_list)

delete_is_set_table(stmt) ==
    delete_get_table_name(stmt).some /\ ends_with(delete_get_table_name(stmt).v, S_set)

delete_is_zset_table(stmt) ==
    delete_get_table_name(stmt).some /\ ends_with(delete_get_table_name(stmt).v, S_zset)

delete_is_string_table(stmt) ==
    /\ delete_get_table_name(stmt).some
    /\ ~ends_with(delete_get_table_name(stmt).v, S_hash)
    /\ ~ends_with(delete_get_table_name(stmt).v, S_list)
    /\ ~ends_with(delete_get_table_name(stmt).v, S_set)
    /\ ~ends_with(delete_get_table_name(stmt).v, S_zset)

delete_has_key_equals(stmt) == delete_get_key_value(stmt).some

delete_has_field_equals(stmt, field_name) == delete_get_field_filter(stmt, field_name).some

is_string_delete(stmt) ==
    is_delete(stmt) /\ delete_is_string_table(stmt) /\ delete_has_key_equals(stmt)

is_hash_delete(stmt) ==
    /\ is_delete(stmt)
    /\ delete_is_hash_table(stmt)
    /\ delete_has_key_equals(stmt)
    /\ ~delete_has_field_equals(stmt, S_field)

is_hash_delete_field(stmt) ==
    /\ is_delete(stmt)
    /\ delete_is_hash_table(stmt)
    /\ delete_has_key_equals(stmt)
    /\ delete_has_field_equals(stmt, S_field)

is_list_delete(stmt) ==
    /\ is_delete(stmt)
    /\ delete_is_list_table(stmt)
    /\ delete_has_key_equals(stmt)
    /\ ~delete_has_field_equals(stmt, S_value)

is_list_delete_value(stmt) ==
    /\ is_delete(stmt)
    /\ delete_is_list_table(stmt)
    /\ delete_has_key_equals(stmt)
    /\ delete_has_field_equals(stmt, S_value)

is_set_delete(stmt) ==
    /\ is_delete(stmt)
    /\ delete_is_set_table(stmt)
    /\ delete_has_key_equals(stmt)
    /\ ~delete_has_field_equals(stmt, S_member)

is_set_delete_member(stmt) ==
    /\ is_delete(stmt)
    /\ delete_is_set_table(stmt)
    /\ delete_has_key_equals(stmt)
    /\ delete_has_field_equals(stmt, S_member)

is_zset_delete(stmt) ==
    /\ is_delete(stmt)
    /\ delete_is_zset_table(stmt)
    /\ delete_has_key_equals(stmt)
    /\ ~delete_has_field_equals(stmt, S_member)

is_zset_delete_member(stmt) ==
    /\ is_delete(stmt)
    /\ delete_is_zset_table(stmt)
    /\ delete_has_key_equals(stmt)
    /\ delete_has_field_equals(stmt, S_member)

\* ------------------------------------------------------------------------
\* context/delete.rs
\* ------------------------------------------------------------------------

StringDeleteContextBuilder(stmt) ==
    IF delete_get_key_value(stmt).some
    THEN {Some([key |-> delete_get_key_value(stmt).v])}
    ELSE {None}

HashDeleteContextBuilder(stmt) ==
    IF delete_get_key_value(stmt).some
    THEN {Some([key |-> delete_get_key_value(stmt).v])}
    ELSE {None}

ListDeleteContextBuilder(stmt) ==
    IF delete_get_key_value(stmt).some
    THEN {Some([key |-> delete_get_key_value(stmt).v])}
    ELSE {None}

SetDeleteContextBuilder(stmt) ==
    IF delete_get_key_value(stmt).some
    THEN {Some([key |-> delete_get_key_value(stmt).v])}
    ELSE {None}

ZSetDeleteContextBuilder(stmt) ==
    IF delete_get_key_value(stmt).some
    THEN {Some([key |-> delete_get_key_value(stmt).v])}
    ELSE {None}

HashDeleteFieldContextBuilder(stmt) ==
    IF ~delete_get_key_value(stmt).some THEN {None}
    ELSE IF ~delete_get_field_filter(stmt, S_field).some THEN {None}
    ELSE {Some([key |-> delete_get_key_value(stmt).v,
                field |-> delete_get_field_filter(stmt, S_field).v])}

ListDeleteValueContextBuilder(stmt) ==
    IF ~delete_get_key_value(stmt).some THEN {None}
    ELSE IF ~delete_get_field_filter(stmt, S_value).some THEN {None}
    ELSE {Some([key |-> delete_get_key_value(stmt).v,
                value |-> delete_get_field_filter(stmt, S_value).v])}

SetDeleteMemberContextBuilder(stmt) ==
    IF ~delete_get_key_value(stmt).some THEN {None}
    ELSE IF ~delete_get_field_filter(stmt, S_member).some THEN {None}
    ELSE {Some([key |-> delete_get_key_value(stmt).v,
                member |-> delete_get_field_filter(stmt, S_member).v])}

ZSetDeleteMemberContextBuilder(stmt) ==
    IF ~delete_get_key_value(stmt).some THEN {None}
    ELSE IF ~delete_get_field_filter(stmt, S_member).some THEN {None}
    ELSE {Some([key |-> delete_get_key_value(stmt).v,
                member |-> delete_get_field_filter(stmt, S_member).v])}

\* ------------------------------------------------------------------------
\* templates/mod.rs: a template is a sequence of literal text and
\* {{ variable }} parts
\* ------------------------------------------------------------------------

Lit(s) == [t |-> "Lit", s |-> s]

Var(name) == [t |-> "Var", name |-> name]

\* TemplateEngine::register_command_templates: the raw templates by name
register_command_templates ==
    [del |-> <<Lit(<<"D","E","L"," ">>), Var("key")>>,
     string_get |-> <<Lit(<<"G","E","T"," ">>), Var("key")>>,
     string_set |-> <<Lit(<<"S","E","T"," ">>), Var("key"), Lit(<<" ">>), Var("value")>>,
     hash_getall |-> <<Lit(<<"H","G","E","T","A","L","L"," ">>), Var("key")>>,
     hash_get |-> <<Lit(<<"H","G","E","T"," ">>), Var("key"), Lit(<<" ">>), Var("field")>>,
     hash_hmget |-> <<Lit(<<"H","M","G","E","T"," ">>), Var("key"), Lit(<<" ">>), Var("fields")>>,
     hash_set |-> <<Lit(<<"H","S","E","T"," ">>), Var("key"), Lit(<<" ">>), Var("field_values")>>,
     hash_delete_field |-> <<Lit(<<"H","D","E","L"," ">>), Var("key"), Lit(<<" ">>), Var("field")>>,
     list_getall |-> <<Lit(<<"L","R","A","N","G","E"," ">>), Var("key"), Lit(<<" ","0"," ","-","1">>)>>,
     list_get_index |-> <<Lit(<<"L","I","N","D","E","X"," ">>), Var("key"), Lit(<<" ">>), Var("index")>>,
     list_get_range |-> <<Lit(<<"L","R","A","N","G","E"," ">>), Var("key"), Lit(<<" ">>), Var("start"), Lit(<<" ">>), Var("stop")>>,
     list_push |-> <<Lit(<<"R","P","U","S","H"," ">>), Var("key"), Lit(<<" ">>), Var("value")>>,
     list_update |-> <<Lit(<<"L","S","E","T"," ">>), Var("key"), Lit(<<" ">>), Var("index"), Lit(<<" ">>), Var("value")>>,
     list_delete_value |-> <<Lit(<<"L","R","E","M"," ">>), Var("key"), Lit(<<" ","0"," ">>), Var("value")>>,
     set_getall |-> <<Lit(<<"S","M","E","M","B","E","R","S"," ">>), Var("key")>>,
     set_ismember |-> <<Lit(<<"S","I","S","M","E","M","B","E","R"," ">>), Var("key"), Lit(<<" ">>), Var("member")>>,
     set_add |-> <<Lit(<<"S","A","D","D"," ">>), Var("key"), Lit(<<" ">>), Var("members")>>,
     set_delete_member |-> <<Lit(<<"S","R","E","M"," ">>), Var("key"), Lit(<<" ">>), Var("member")>>,
     zset_getall |-> <<Lit(<<"Z","R","A","N","G","E","B","Y","S","C","O","R","E"," ">>), Var("key"), Lit(<<" ","-","i","n","f"," ","+","i","n","f">>)>>,
     zset_get_score_range |-> <<Lit(<<"Z","R","A","N","G","E","B","Y","S","C","O","R","E"," ">>), Var("key"), Lit(<<" ">>), Var("min"), Lit(<<" ">>), Var("max")>>,
     zset_get_reversed |-> <<Lit(<<"Z","R","E","V","R","A","N","G","E","B","Y","S","C","O","R","E"," ">>), Var("key"), Lit(<<" ">>), Var("max"), Lit(<<" ">>), Var("min")>>,
     zset_add |-> <<Lit(<<"Z","A","D","D"," ">>), Var("key"), Lit(<<" ">>), Var("score"), Lit(<<" ">>), Var("member")>>,
     zset_delete_member |-> <<Lit(<<"Z","R","E","M"," ">>), Var("key"), Lit(<<" ">>), Var("member")>>]

RenderOk(s) == [ok |-> TRUE, v |-> s]

RenderErr(e) == [ok |-> FALSE, e |-> e]

RECURSIVE RenderParts(_, _)
\* substitute the context values for the variables of the template
RenderParts(parts, context) ==
    IF parts = <<>> THEN <<>>
    ELSE (IF parts[1].t = "Lit" THEN parts[1].s ELSE context[parts[1].name])
         \o RenderParts(Tail(parts), context)

\* TemplateEngine::render: fails when the template is not registered or a
\* variable of the template is not in the context
render(tpls, template_name, context) ==
    IF template_name \notin DOMAIN tpls THEN RenderErr("TemplateNotFound")
    ELSE IF \E i \in 1..Len(tpls[template_name]) :
               /\ tpls[template_name][i].t = "Var"
               /\ tpls[template_name][i].name \notin DOMAIN context
         THEN RenderErr("VariableNotFound")
    ELSE RenderOk(RenderParts(tpls[template_name], context))

\* ------------------------------------------------------------------------
\* rules: a rule names its matcher, its context builder and its template
\* ------------------------------------------------------------------------

GenericRule(matcher, context_builder, template_name) ==
    [matcher |-> matcher, context_builder |-> context_builder,
     template_name |-> template_name]

\* fault: the list rules registered with list_get_range before list_getall
create_select_rules_range_first ==
    << GenericRule("is_string_get", "StringGetContextBuilder", "string_get"),
       GenericRule("is_string_get_value", "StringGetValueContextBuilder", "string_get"),
       GenericRule("is_hash_getall", "HashGetAllContextBuilder", "hash_getall"),
       GenericRule("is_hash_get", "HashGetContextBuilder", "hash_get"),
       GenericRule("is_hash_hmget", "HashMultiGetContextBuilder", "hash_hmget"),
       GenericRule("is_list_get_range", "ListGetRangeContextBuilder", "list_get_range"),
       GenericRule("is_list_getall", "ListGetAllContextBuilder", "list_getall"),
       GenericRule("is_list_get_index", "ListGetIndexContextBuilder", "list_get_index"),
       GenericRule("is_set_getall", "SetGetAllContextBuilder", "set_getall"),
       GenericRule("is_set_ismember", "SetIsMemberContextBuilder", "set_ismember"),
       GenericRule("is_zset_getall", "ZSetGetAllContextBuilder", "zset_getall"),
       GenericRule("is_zset_get_score_range", "ZSetGetScoreRangeContextBuilder",
                   "zset_get_score_range"),
       GenericRule("is_zset_get_reversed", "ZSetGetReversedContextBuilder",
                   "zset_get_reversed") >>

create_select_rules ==
    << GenericRule("is_string_get", "StringGetContextBuilder", "string_get"),
       GenericRule("is_string_get_value", "StringGetValueContextBuilder", "string_get"),
       GenericRule("is_hash_getall", "HashGetAllContextBuilder", "hash_getall"),
       GenericRule("is_hash_get", "HashGetContextBuilder", "hash_get"),
       GenericRule("is_hash_hmget", "HashMultiGetContextBuilder", "hash_hmget"),
       GenericRule("is_list_getall", "ListGetAllContextBuilder", "list_getall"),
       GenericRule("is_list_get_index", "ListGetIndexContextBuilder", "list_get_index"),
       GenericRule("is_list_get_range", "ListGetRangeContextBuilder", "list_get_range"),
       GenericRule("is_set_getall", "SetGetAllContextBuilder", "set_getall"),
       GenericRule("is_set_ismember", "SetIsMemberContextBuilder", "set_ismember"),
       GenericRule("is_zset_getall", "ZSetGetAllContextBuilder", "zset_getall"),
       GenericRule("is_zset_get_score_range", "ZSetGetScoreRangeContextBuilder",
                   "zset_get_score_range"),
       GenericRule("is_zset_get_reversed", "ZSetGetReversedContextBuilder",
                   "zset_get_reversed") >>

create_insert_rules ==
    << GenericRule("is_string_set", "StringSetContextBuilder", "string_set"),
       GenericRule("is_hash_set", "HashSetContextBuilder", "hash_set"),
       GenericRule("is_list_push", "ListPushContextBuilder", "list_push"),
       GenericRule("is_set_add", "SetAddContextBuilder", "set_add"),
       GenericRule("is_zset_add", "ZSetAddContextBuilder", "zset_add") >>

create_update_rules ==
    << GenericRule("is_string_update", "StringUpdateContextBuilder", "string_update"),
       GenericRule("is_hash_update", "HashUpdateContextBuilder", "hash_update"),
       GenericRule("is_list_update", "ListUpdateContextBuilder", "list_update"),
       GenericRule("is_zset_update", "ZSetUpdateContextBuilder", "zset_update") >>

create_delete_rules ==
    << GenericRule("is_string_delete", "StringDeleteContextBuilder", "del"),
       GenericRule("is_hash_delete", "HashDeleteContextBuilder", "hash_delete"),
       GenericRule("is_hash_delete_field", "HashDeleteFieldContextBuilder",
                   "hash_delete_field"),
       GenericRule("is_list_delete", "ListDeleteContextBuilder", "list_delete"),
       GenericRule("is_list_delete_value", "ListDeleteValueContextBuilder",
                   "list_delete_value"),
       GenericRule("is_set_delete", "SetDeleteContextBuilder", "set_delete"),
       GenericRule("is_set_delete_member", "SetDeleteMemberContextBuilder",
                   "set_delete_member"),
       GenericRule("is_zset_delete", "ZSetDeleteContextBuilder", "zset_delete"),
       GenericRule("is_zset_delete_member", "ZSetDeleteMemberContextBuilder",
                   "zset_delete_member") >>

create_rules ==
    create_select_rules \o create_insert_rules \o create_update_rules \o create_delete_rules

\* Rule::matches: the call through the rule's matcher
matches(rule, stmt) ==
    CASE rule.matcher = "is_string_get" -> is_string_get(stmt)
      [] rule.matcher = "is_string_get_value" -> is_string_get_value(stmt)
      [] rule.matcher = "is_hash_getall" -> is_hash_getall(stmt)
      [] rule.matcher = "is_hash_get" -> is_hash_get(stmt)
      [] rule.matcher = "is_hash_hmget" -> is_hash_hmget(stmt)
      [] rule.matcher = "is_list_getall" -> is_list_getall(stmt)
      [] rule.matcher = "is_list_get_index" -> is_list_get_index(stmt)
      [] rule.matcher = "is_list_get_range" -> is_list_get_range(stmt)
      [] rule.matcher = "is_set_getall" -> is_set_getall(stmt)
      [] rule.matcher = "is_set_ismember" -> is_set_ismember(stmt)
      [] rule.matcher = "is_zset_getall" -> is_zset_getall(stmt)
      [] rule.matcher = "is_zset_get_score_range" -> is_zset_get_score_range(stmt)
      [] rule.matcher = "is_zset_get_reversed" -> is_zset_get_reversed(stmt)
      [] rule.matcher = "is_string_set" -> is_string_set(stmt)
      [] rule.matcher = "is_hash_set" -> is_hash_set(stmt)
      [] rule.matcher = "is_list_push" -> is_list_push(stmt)
      [] rule.matcher = "is_set_add" -> is_set_add(stmt)
      [] rule.matcher = "is_zset_add" -> is_zset_add(stmt)
      [] rule.matcher = "is_string_update" -> is_string_update(stmt)
      [] rule.matcher = "is_hash_update" -> is_hash_update(stmt)
      [] rule.matcher = "is_list_update" -> is_list_update(stmt)
      [] rule.matcher = "is_zset_update" -> is_zset_update(stmt)
      [] rule.matcher = "is_string_delete" -> is_string_delete(stmt)
      [] rule.matcher = "is_hash_delete" -> is_hash_delete(stmt)
      [] rule.matcher = "is_hash_delete_field" -> is_hash_delete_field(stmt)
      [] rule.matcher = "is_list_delete" -> is_list_delete(stmt)
      [] rule.matcher = "is_list_delete_value" -> is_list_delete_value(stmt)
      [] rule.matcher = "is_set_delete" -> is_set_delete(stmt)
      [] rule.matcher = "is_set_delete_member" -> is_set_delete_member(stmt)
      [] rule.matcher = "is_zset_delete" -> is_zset_delete(stmt)
      [] rule.matcher = "is_zset_delete_member" -> is_zset_delete_member(stmt)

\* Rule::get_context: the call through the rule's boxed context builder
get_context(rule, stmt) ==
    CASE rule.context_builder = "StringGetContextBuilder" -> StringGetContextBuilder(stmt)
      [] rule.context_builder = "StringGetValueContextBuilder" -> StringGetValueContextBuilder(stmt)
      [] rule.context_builder = "HashGetAllContextBuilder" -> HashGetAllContextBuilder(stmt)
      [] rule.context_builder = "HashGetContextBuilder" -> HashGetContextBuilder(stmt)
      [] rule.context_builder = "HashMultiGetContextBuilder" -> HashMultiGetContextBuilder(stmt)
      [] rule.context_builder = "ListGetAllContextBuilder" -> ListGetAllContextBuilder(stmt)
      [] rule.context_builder = "ListGetIndexContextBuilder" -> ListGetIndexContextBuilder(stmt)
      [] rule.context_builder = "ListGetRangeContextBuilder" -> ListGetRangeContextBuilder(stmt)
      [] rule.context_builder = "SetGetAllContextBuilder" -> SetGetAllContextBuilder(stmt)
      [] rule.context_builder = "SetIsMemberContextBuilder" -> SetIsMemberContextBuilder(stmt)
      [] rule.context_builder = "ZSetGetAllContextBuilder" -> ZSetGetAllContextBuilder(stmt)
      [] rule.context_builder = "ZSetGetScoreRangeContextBuilder" -> ZSetGetScoreRangeContextBuilder(stmt)
      [] rule.context_builder = "ZSetGetReversedContextBuilder" -> ZSetGetReversedContextBuilder(stmt)
      [] rule.context_builder = "StringSetContextBuilder" -> StringSetContextBuilder(stmt)
      [] rule.context_builder = "HashSetContextBuilder" -> HashSetContextBuilder(stmt)
      [] rule.context_builder = "ListPushContextBuilder" -> ListPushContextBuilder(stmt)
      [] rule.context_builder = "SetAddContextBuilder" -> SetAddContextBuilder(stmt)
      [] rule.context_builder = "ZSetAddContextBuilder" -> ZSetAddContextBuilder(stmt)
      [] rule.context_builder = "StringUpdateContextBuilder" -> StringUpdateContextBuilder(stmt)
      [] rule.context_builder = "HashUpdateContextBuilder" -> HashUpdateContextBuilder(stmt)
      [] rule.context_builder = "ListUpdateContextBuilder" -> ListUpdateContextBuilder(stmt)
      [] rule.context_builder = "ZSetUpdateContextBuilder" -> ZSetUpdateContextBuilder(stmt)
      [] rule.context_builder = "StringDeleteContextBuilder" -> StringDeleteContextBuilder(stmt)
      [] rule.context_builder = "HashDeleteContextBuilder" -> HashDeleteContextBuilder(stmt)
      [] rule.context_builder = "HashDeleteFieldContextBuilder" -> HashDeleteFieldContextBuilder(stmt)
      [] rule.context_builder = "ListDeleteContextBuilder" -> ListDeleteContextBuilder(stmt)
      [] rule.context_builder = "ListDeleteValueContextBuilder" -> ListDeleteValueContextBuilder(stmt)
      [] rule.context_builder = "SetDeleteContextBuilder" -> SetDeleteContextBuilder(stmt)
      [] rule.context_builder = "SetDeleteMemberContextBuilder" -> SetDeleteMemberContextBuilder(stmt)
      [] rule.context_builder = "ZSetDeleteContextBuilder" -> ZSetDeleteContextBuilder(stmt)
      [] rule.context_builder = "ZSetDeleteMemberContextBuilder" -> ZSetDeleteMemberContextBuilder(stmt)

\* ------------------------------------------------------------------------
\* lib.rs: SqlToRedisTransformer::transform
\* ------------------------------------------------------------------------

\* the input of a call: the SQL text, given by what the parser makes of it
ParseFailure == [parse |-> "Err"]

Parsed(ast) == [parse |-> "Ok", ast |-> ast]

\* the ways a call can end
Ok(cmd) == [tag |-> "Ok", cmd |-> cmd]

SqlParseError == [tag |-> "Err", kind |-> "SqlParseError"]

NoMatchingPattern(input) == [tag |-> "Err", kind |-> "NoMatchingPattern", sql |-> input]

TemplateError(e) == [tag |-> "Err", kind |-> "TemplateError", e |-> e]

\* the call does not return: a panic unwinds through transform
Aborted == [tag |-> "Abort"]

RECURSIVE transform_rules_last_match(_, _, _, _, _)
\* fault: the loop does not return at the first result, the last one stands
transform_rules_last_match(rs, tpls, input, stmt, i) ==
    IF i > Len(rs) THEN {NoMatchingPattern(input)}
    ELSE LET later == transform_rules_last_match(rs, tpls, input, stmt, i + 1)
             found == {r \in later : r # NoMatchingPattern(input)}
         IN  IF found # {} THEN found
             ELSE IF ~matches(rs[i], stmt) THEN later
             ELSE UNION {
                    IF c = Panic THEN {Aborted}
                    ELSE IF c.some
                         THEN LET r == render(tpls, rs[i].template_name, c.v)
                              IN  {IF r.ok THEN Ok(r.v) ELSE TemplateError(r.e)}
                         ELSE later
                    : c \in get_context(rs[i], stmt) }

RECURSIVE transform_rules(_, _, _, _, _)
\* the loop over the rules from index i on: the results the call can have
transform_rules(rs, tpls, input, stmt, i) ==
    IF i > Len(rs) THEN {NoMatchingPattern(input)}
    ELSE IF ~matches(rs[i], stmt) THEN transform_rules(rs, tpls, input, stmt, i + 1)
    ELSE UNION {
           IF c = Panic THEN {Aborted}
           ELSE IF c.some
                THEN LET r == render(tpls, rs[i].template_name, c.v)
                     IN  {IF r.ok THEN Ok(r.v) ELSE TemplateError(r.e)}
                ELSE transform_rules(rs, tpls, input, stmt, i + 1)
           : c \in get_context(rs[i], stmt) }

transform(rs, tpls, input) ==
    IF input.parse = "Err" THEN {SqlParseError}
    ELSE IF input.ast = <<>> THEN {SqlParseError}
    ELSE transform_rules(rs, tpls, input, input.ast[1], 1)

\* ------------------------------------------------------------------------
\* pattern/matchers/common.rs: table-name classifiers and the patterns of
\* the direct command generator; a pattern yields Some(value) on a match
\* ------------------------------------------------------------------------

is_hash_table_name(name) == ends_with(name, S_hash)

is_list_table_name(name) == ends_with(name, S_list)

\* fault: the set suffix taken with one underscore
is_set_table_name_one_underscore(name) == ends_with(name, <<"_","s","e","t">>)

is_set_table_name(name) == ends_with(name, S_set)

is_zset_table_name(name) == ends_with(name, S_zset)

is_string_table_name(name) ==
    /\ ~is_hash_table_name(name)
    /\ ~is_list_table_name(name)
    /\ ~is_set_table_name(name)
    /\ ~is_zset_table_name(name)

get_redis_data_type(table_name) ==
    IF is_hash_table_name(table_name) THEN "Hash"
    ELSE IF is_list_table_name(table_name) THEN "List"
    ELSE IF is_set_table_name(table_name) THEN "Set"
    ELSE IF is_zset_table_name(table_name) THEN "SortedSet"
    ELSE "String"

select_statement(stmt) ==
    IF stmt.kind = "Query" /\ stmt.body.t = "Select" THEN Some(stmt.body) ELSE None

wildcard_select(stmt) ==
    IF /\ select_statement(stmt).some
       /\ Len(select_statement(stmt).v.projection) = 1
       /\ select_statement(stmt).v.projection[1].t = "Wildcard"
    THEN select_statement(stmt)
    ELSE None

\* the pair (select, field name)
single_field_select(stmt) ==
    IF /\ select_statement(stmt).some
       /\ Len(select_statement(stmt).v.projection) = 1
       /\ select_statement(stmt).v.projection[1].t = "UnnamedExpr"
       /\ select_statement(stmt).v.projection[1].expr.t = "Identifier"
    THEN Some(<<select_statement(stmt).v, select_statement(stmt).v.projection[1].expr.value>>)
    ELSE None

\* the pair (select, field names), when every projection item is an identifier
multi_field_select(stmt) ==
    IF select_statement(stmt).some /\ Len(select_statement(stmt).v.projection) > 1
    THEN LET select == select_statement(stmt).v
             found == sel_get_field_names(select.projection)
             field_names == [i \in 1..Len(found) |-> found[i].v]
         IN  IF Len(field_names) = Len(select.projection)
             THEN Some(<<select, field_names>>)
             ELSE None
    ELSE None

table_with_suffix(table, suffix) ==
    IF table.t = "Table" /\ table.name # <<>> /\ ends_with(table.name[1], suffix)
    THEN Some(table.name[1])
    ELSE None

hash_table(table) == table_with_suffix(table, S_hash)

list_table(table) == table_with_suffix(table, S_list)

set_table(table) == table_with_suffix(table, S_set)

zset_table(table) == table_with_suffix(table, S_zset)

string_table(table) ==
    IF /\ table.t = "Table"
       /\ table.name # <<>>
       /\ ~ends_with(table.name[1], S_hash)
       /\ ~ends_with(table.name[1], S_list)
       /\ ~ends_with(table.name[1], S_set)
       /\ ~ends_with(table.name[1], S_zset)
    THEN Some(table.name[1])
    ELSE None

\* expr is an Expr; only `key = literal` itself matches
key_equals(expr) ==
    IF /\ expr.t = "BinaryOp"
       /\ expr.op = "Eq"
       /\ expr.left.t = "Identifier"
       /\ to_lowercase(expr.left.value) = S_key
    THEN value_text(expr.right)
    ELSE None

field_equals(expr, field_name) ==
    IF /\ expr.t = "BinaryOp"
       /\ expr.op = "Eq"
       /\ expr.left.t = "Identifier"
       /\ to_lowercase(expr.left.value) = to_lowercase(field_name)
    THEN value_text(expr.right)
    ELSE None

\* every bound is written inclusive
score_range_inclusive(expr) ==
    IF /\ expr.t = "BinaryOp"
       /\ expr.left.t = "Identifier"
       /\ to_lowercase(expr.left.value) = S_score
       /\ expr.op \in CmpOps
       /\ expr.right.t = "Value"
       /\ expr.right.value.t = "Number"
    THEN IF expr.op \in {"Gt", "GtEq"}
         THEN Some(<<expr.right.value.s, S_pinf>>)
         ELSE Some(<<S_minf, expr.right.value.s>>)
    ELSE None

score_range(expr) ==
    IF /\ expr.t = "BinaryOp"
       /\ expr.left.t = "Identifier"
       /\ to_lowercase(expr.left.value) = S_score
       /\ expr.op \in CmpOps
       /\ expr.right.t = "Value"
       /\ expr.right.value.t = "Number"
    THEN Some(score_bounds(expr.op, expr.right.value.s))
    ELSE None

\* only the first ORDER BY term is looked at
order_by_score_desc(query) ==
    /\ query.order_by.some
    /\ query.order_by.v # <<>>
    /\ query.order_by.v[1].expr.t = "Identifier"
    /\ to_lowercase(query.order_by.v[1].expr.value) = S_score
    /\ query.order_by.v[1].asc.some
    /\ ~query.order_by.v[1].asc.v

string_get(stmt) ==
    IF ~wildcard_select(stmt).some THEN None
    ELSE LET select == wildcard_select(stmt).v IN
         IF select.from = <<>> THEN None
         ELSE IF ~string_table(select.from[1]).some THEN None
         ELSE IF select.selection.some THEN key_equals(select.selection.v)
         ELSE None

hash_getall(stmt) ==
    IF ~wildcard_select(stmt).some THEN None
    ELSE LET select == wildcard_select(stmt).v IN
         IF select.from = <<>> THEN None
         ELSE IF ~hash_table(select.from[1]).some THEN None
         ELSE IF select.selection.some THEN key_equals(select.selection.v)
         ELSE None

\* ------------------------------------------------------------------------
\* pattern/extractors: what the direct command generator reads from a
\* statement; an Info struct is a record
\* ------------------------------------------------------------------------

RECURSIVE extract_key_from_condition_right_first(_)
\* the search of a conjunction tries the right side before the left
extract_key_from_condition_right_first(expr) ==
    IF expr.t # "BinaryOp" THEN None
    ELSE IF /\ expr.op = "Eq"
            /\ expr.left.t = "Identifier"
            /\ to_lowercase(expr.left.value) = S_key
         THEN value_text(expr.right)
    ELSE IF expr.op = "And"
         THEN IF extract_key_from_condition_right_first(expr.right).some
              THEN extract_key_from_condition_right_first(expr.right)
              ELSE extract_key_from_condition_right_first(expr.left)
    ELSE None

RECURSIVE extract_key_from_condition(_)
\* looks through AND nodes, left branch first
extract_key_from_condition(expr) ==
    IF expr.t # "BinaryOp" THEN None
    ELSE IF expr.op = "Eq" /\ expr.left.t = "Identifier"
                           /\ to_lowercase(expr.left.value) = S_key
         THEN value_text(expr.right)
    ELSE IF expr.op = "And"
         THEN IF extract_key_from_condition(expr.left).some
              THEN extract_key_from_condition(expr.left)
              ELSE extract_key_from_condition(expr.right)
    ELSE None

extractors_determine_table_type(table) ==
    IF ends_with(table, S_hash) THEN "hash"
    ELSE IF ends_with(table, S_list) THEN "list"
    ELSE IF ends_with(table, S_set) THEN "set"
    ELSE IF ends_with(table, S_zset) THEN "zset"
    ELSE "string"

is_table_type(table, suffix) ==
    table.t = "Table" /\ table.name # <<>> /\ ends_with(table.name[1], suffix)

extract_string_get(stmt) ==
    IF string_get(stmt).some THEN Some([key |-> string_get(stmt).v]) ELSE None

extract_hash_getall(stmt) ==
    IF hash_getall(stmt).some THEN Some([key |-> hash_getall(stmt).v]) ELSE None

extract_hash_get(stmt) ==
    IF ~single_field_select(stmt).some THEN None
    ELSE LET select == single_field_select(stmt).v[1]
             field == single_field_select(stmt).v[2]
         IN  IF select.from = <<>> THEN None
             ELSE IF ~hash_table(select.from[1]).some THEN None
             ELSE IF select.selection.some /\ key_equals(select.selection.v).some
                  THEN Some([key |-> key_equals(select.selection.v).v, field |-> field])
             ELSE None

extract_hash_multi_get(stmt) ==
    IF ~multi_field_select(stmt).some THEN None
    ELSE LET select == multi_field_select(stmt).v[1]
             fields == multi_field_select(stmt).v[2]
         IN  IF select.from = <<>> THEN None
             ELSE IF ~hash_table(select.from[1]).some THEN None
             ELSE IF select.selection.some /\ key_equals(select.selection.v).some
                  THEN Some([key |-> key_equals(select.selection.v).v, fields |-> fields])
             ELSE None

RECURSIVE extract_list_index(_)
\* `index = <number>`, looked for through AND nodes, left branch first
extract_list_index(expr) ==
    IF expr.t # "BinaryOp" THEN None
    ELSE IF /\ expr.left.t = "Identifier"
            /\ to_lowercase(expr.left.value) = S_index
            /\ expr.op = "Eq"
            /\ expr.right.t = "Value"
            /\ expr.right.value.t = "Number"
         THEN Some(expr.right.value.s)
    ELSE IF expr.op = "And"
         THEN IF extract_list_index(expr.left).some
              THEN extract_list_index(expr.left)
              ELSE extract_list_index(expr.right)
    ELSE None

extract_list_getall(stmt) ==
    IF ~wildcard_select(stmt).some THEN None
    ELSE LET select == wildcard_select(stmt).v IN
         IF select.from = <<>> THEN None
         ELSE IF ~list_table(select.from[1]).some THEN None
         ELSE IF ~select.selection.some THEN None
         ELSE IF field_equals(select.selection.v, S_index).some THEN None
         ELSE IF key_equals(select.selection.v).some
              THEN Some([key |-> key_equals(select.selection.v).v])
         ELSE None

query_has_limit(query) ==
    IF /\ query.limit.some
       /\ query.limit.v.t = "Value"
       /\ query.limit.v.value.t = "Number"
    THEN parse_u64(query.limit.v.value.s)
    ELSE None

extract_list_get_range(stmt) ==
    IF ~wildcard_select(stmt).some THEN None
    ELSE LET select == wildcard_select(stmt).v IN
         IF select.from = <<>> THEN None
         ELSE IF ~list_table(select.from[1]).some THEN None
         ELSE IF ~select.selection.some THEN None
         ELSE IF ~key_equals(select.selection.v).some THEN None
         ELSE IF query_has_limit(stmt).some
              THEN Some([key |-> key_equals(select.selection.v).v,
                         limit |-> query_has_limit(stmt).v])
         ELSE None

\* some table of the FROM clause has the suffix
from_has_suffix(select, suffix) ==
    \E i \in 1..Len(select.from) : is_table_type(select.from[i], suffix)

extract_list_get_index(stmt) ==
    IF /\ stmt.kind = "Query"
       /\ stmt.body.t = "Select"
       /\ from_has_suffix(stmt.body, S_list)
       /\ stmt.body.selection.some
       /\ extract_key_from_condition(stmt.body.selection.v).some
       /\ extract_list_index(stmt.body.selection.v).some
    THEN Some([key |-> extract_key_from_condition(stmt.body.selection.v).v,
               index |-> extract_list_index(stmt.body.selection.v).v])
    ELSE None

RECURSIVE extract_member_from_condition(_)
\* `member = <quoted string>`, looked for through AND nodes, left branch first
extract_member_from_condition(expr) ==
    IF expr.t # "BinaryOp" THEN None
    ELSE IF expr.op = "Eq" /\ expr.left.t = "Identifier"
                           /\ to_lowercase(expr.left.value) = S_member
         THEN IF /\ expr.right.t = "Value"
                 /\ expr.right.value.t \in {"SingleQuotedString", "DoubleQuotedString"}
              THEN Some(expr.right.value.s)
              ELSE None
    ELSE IF expr.op = "And"
         THEN IF extract_member_from_condition(expr.left).some
              THEN extract_member_from_condition(expr.left)
              ELSE extract_member_from_condition(expr.right)
    ELSE None

extract_set_getall(stmt) ==
    IF ~wildcard_select(stmt).some THEN None
    ELSE LET select == wildcard_select(stmt).v IN
         IF select.from = <<>> THEN None
         ELSE IF ~set_table(select.from[1]).some THEN None
         ELSE IF ~select.selection.some THEN None
         ELSE IF field_equals(select.selection.v, S_member).some THEN None
         ELSE IF key_equals(select.selection.v).some
              THEN Some([key |-> key_equals(select.selection.v).v])
         ELSE None

extract_set_ismember(stmt) ==
    IF /\ stmt.kind = "Query"
       /\ stmt.body.t = "Select"
       /\ from_has_suffix(stmt.body, S_set)
       /\ stmt.body.selection.some
       /\ extract_key_from_condition(stmt.body.selection.v).some
       /\ extract_member_from_condition(stmt.body.selection.v).some
    THEN Some([key |-> extract_key_from_condition(stmt.body.selection.v).v,
               member |-> extract_member_from_condition(stmt.body.selection.v).v])
    ELSE None

RECURSIVE extract_set_member(_)
\* `member = <quoted string>`, looked for through AND nodes, left branch first
extract_set_member(expr) ==
    IF expr.t # "BinaryOp" THEN None
    ELSE IF /\ expr.left.t = "Identifier"
            /\ to_lowercase(expr.left.value) = S_member
            /\ expr.op = "Eq"
            /\ expr.right.t = "Value"
            /\ expr.right.value.t \in {"SingleQuotedString", "DoubleQuotedString"}
         THEN Some(expr.right.value.s)
    ELSE IF expr.op = "And"
         THEN IF extract_set_member(expr.left).some
              THEN extract_set_member(expr.left)
              ELSE extract_set_member(expr.right)
    ELSE None

RECURSIVE extract_score_range_left_wins(_)
\* a conjunction with a range on both sides keeps the range of the left side
extract_score_range_left_wins(expr) ==
    IF expr.t # "BinaryOp" THEN None
    ELSE IF /\ expr.left.t = "Identifier"
            /\ to_lowercase(expr.left.value) = S_score
            /\ expr.op \in CmpOps
            /\ expr.right.t = "Value"
            /\ expr.right.value.t = "Number"
         THEN Some(score_bounds(expr.op, expr.right.value.s))
    ELSE IF expr.op = "And"
         THEN LET left_range == extract_score_range_left_wins(expr.left)
                  right_range == extract_score_range_left_wins(expr.right)
              IN  IF left_range.some THEN left_range ELSE right_range
    ELSE None

RECURSIVE extract_score_range(_)
\* one comparison of score with a number, or the bounds of the two sides of
\* an AND: the lower bound of the left side with the upper bound of the right
extract_score_range(expr) ==
    IF expr.t # "BinaryOp" THEN None
    ELSE IF /\ expr.left.t = "Identifier"
            /\ to_lowercase(expr.left.value) = S_score
            /\ expr.op \in CmpOps
            /\ expr.right.t = "Value"
            /\ expr.right.value.t = "Number"
         THEN Some(score_bounds(expr.op, expr.right.value.s))
    ELSE IF expr.op = "And"
         THEN LET left_range == extract_score_range(expr.left)
                  right_range == extract_score_range(expr.right)
              IN  IF left_range.some /\ right_range.some
                  THEN Some(<<left_range.v[1], right_range.v[2]>>)
                  ELSE IF left_range.some THEN left_range
                  ELSE right_range
    ELSE None

extract_zset_getall(stmt) ==
    IF ~wildcard_select(stmt).some THEN None
    ELSE LET select == wildcard_select(stmt).v IN
         IF select.from = <<>> THEN None
         ELSE IF ~zset_table(select.from[1]).some THEN None
         ELSE IF ~select.selection.some THEN None
         ELSE IF score_range(select.selection.v).some THEN None
         ELSE IF key_equals(select.selection.v).some
              THEN Some([key |-> key_equals(select.selection.v).v])
         ELSE None

extract_zset_get_score_range(stmt) ==
    IF /\ stmt.kind = "Query"
       /\ stmt.body.t = "Select"
       /\ from_has_suffix(stmt.body, S_zset)
       /\ stmt.body.selection.some
       /\ extract_key_from_condition(stmt.body.selection.v).some
       /\ extract_score_range(stmt.body.selection.v).some
    THEN Some([key |-> extract_key_from_condition(stmt.body.selection.v).v,
               min |-> extract_score_range(stmt.body.selection.v).v[1],
               max |-> extract_score_range(stmt.body.selection.v).v[2]])
    ELSE None

extract_zset_get_reversed(stmt) ==
    IF stmt.kind # "Query" THEN None
    ELSE IF ~order_by_score_desc(stmt) THEN None
    ELSE IF ~(/\ stmt.body.t = "Select"
              /\ Len(stmt.body.projection) = 1
              /\ stmt.body.projection[1].t = "Wildcard") THEN None
    ELSE IF stmt.body.from = <<>> THEN None
    ELSE IF ~zset_table(stmt.body.from[1]).some THEN None
    ELSE IF stmt.body.selection.some /\ key_equals(stmt.body.selection.v).some
         THEN Some([key |-> key_equals(stmt.body.selection.v).v])
    ELSE None

\* the literals of the single row of a VALUES clause, None when there is not
\* exactly one row or some element is not a string or number literal
extract_values_from_source(source) ==
    IF /\ source.body.t = "Values"
       /\ Len(source.body.rows) = 1
       /\ \A i \in 1..Len(source.body.rows[1]) : ins_extract_value(source.body.rows[1][i]).some
    THEN Some([i \in 1..Len(source.body.rows[1]) |-> ins_extract_value(source.body.rows[1][i]).v])
    ELSE None

extract_insert_command(stmt) ==
    IF stmt.kind # "Insert" THEN None
    ELSE IF stmt.table.t # "TableName" \/ stmt.table.name = <<>> THEN None
    ELSE IF ~stmt.source.some THEN None
    ELSE IF ~extract_values_from_source(stmt.source.v).some THEN None
    ELSE LET values == extract_values_from_source(stmt.source.v).v IN
         IF Len(stmt.columns) # Len(values) THEN None
         ELSE LET field_map == MapOfPairs(stmt.columns, values) IN
              IF MapGet(field_map, S_key).some
              THEN Some([table |-> stmt.table.name[1],
                         key |-> field_map[S_key],
                         fields |-> field_map])
              ELSE None

\* delete.tables holds the names written between DELETE and FROM
extract_delete_command(stmt) ==
    IF stmt.kind # "Delete" THEN None
    ELSE IF stmt.tables = <<>> \/ stmt.tables[1] = <<>> THEN None
    ELSE IF stmt.selection.some /\ extract_key_from_condition(stmt.selection.v).some
         THEN Some([table |-> stmt.tables[1][1],
                    key |-> extract_key_from_condition(stmt.selection.v).v,
                    member |-> extract_set_member(stmt.selection.v),
                    index |-> extract_list_index(stmt.selection.v)])
    ELSE None

\* ------------------------------------------------------------------------
\* commands.rs: the direct command generator
\* ------------------------------------------------------------------------

\* RedisCommand::new(command, args).to_string()
RedisCommand(command, args) == Join(<<command>> \o args, SP)

commands_determine_table_type(table) ==
    IF ends_with(table, S_hash) THEN "hash"
    ELSE IF ends_with(table, S_list) THEN "list"
    ELSE IF ends_with(table, S_set) THEN "set"
    ELSE IF ends_with(table, S_zset) THEN "zset"
    ELSE "string"

\* the field and value arguments of HMSET, the fields visited in order p
hmset_args(fields, p) ==
    LET kept == SelectSeq(p, LAMBDA f : f # S_key)
        pairs == [i \in 1..Len(kept) |-> <<kept[i], fields[kept[i]]>>]
    IN  [i \in 1..(2 * Len(kept)) |-> pairs[(i + 1) \div 2][2 - (i % 2)]]

\* the delete branch of generate_command
generate_delete_command(stmt) ==
    IF ~extract_delete_command(stmt).some THEN {None}
    ELSE LET info == extract_delete_command(stmt).v
             type == commands_determine_table_type(info.table)
         IN  IF ~info.member.some /\ ~info.index.some
             THEN {Some(RedisCommand(<<"D","E","L">>, <<info.key>>))}
             ELSE IF type = "hash" /\ info.member.some
                  THEN {Some(RedisCommand(<<"H","D","E","L">>, <<info.key, info.member.v>>))}
             ELSE IF type = "list" /\ info.member.some
                  THEN {Some(RedisCommand(<<"L","R","E","M">>, <<info.key, S_0, info.member.v>>))}
             ELSE IF type = "set" /\ info.member.some
                  THEN {Some(RedisCommand(<<"S","R","E","M">>, <<info.key, info.member.v>>))}
             ELSE IF type = "zset" /\ info.member.some
                  THEN {Some(RedisCommand(<<"Z","R","E","M">>, <<info.key, info.member.v>>))}
             ELSE {None}

\* the insert branch without the LSET of a list table with an index column
generate_insert_command_without_index(stmt) ==
    IF ~extract_insert_command(stmt).some THEN generate_delete_command(stmt)
    ELSE LET info == extract_insert_command(stmt).v
             type == commands_determine_table_type(info.table)
             value == MapGet(info.fields, S_value)
             index == MapGet(info.fields, S_index)
             member == MapGet(info.fields, S_member)
             score == MapGet(info.fields, S_score)
         IN  IF type = "string" /\ value.some
             THEN {Some(RedisCommand(<<"S","E","T">>, <<info.key, value.v>>))}
             ELSE IF type = "hash"
                  THEN {Some(RedisCommand(<<"H","M","S","E","T">>,
                                          <<info.key>> \o hmset_args(info.fields, p))) :
                           p \in IterOrders(info.fields)}
             ELSE IF type = "list" /\ value.some
                  THEN {Some(RedisCommand(<<"R","P","U","S","H">>, <<info.key, value.v>>))}
             ELSE IF type = "set" /\ member.some
                  THEN {Some(RedisCommand(<<"S","A","D","D">>, <<info.key, member.v>>))}
             ELSE IF type = "zset" /\ member.some /\ score.some
                  THEN {Some(RedisCommand(<<"Z","A","D","D">>, <<info.key, score.v, member.v>>))}
             ELSE generate_delete_command(stmt)

\* the insert branch of generate_command, falling through to the delete branch
generate_insert_command(stmt) ==
    IF ~extract_insert_command(stmt).some THEN generate_delete_command(stmt)
    ELSE LET info == extract_insert_command(stmt).v
             type == commands_determine_table_type(info.table)
             value == MapGet(info.fields, S_value)
             index == MapGet(info.fields, S_index)
             member == MapGet(info.fields, S_member)
             score == MapGet(info.fields, S_score)
         IN  IF type = "string" /\ value.some
             THEN {Some(RedisCommand(<<"S","E","T">>, <<info.key, value.v>>))}
             ELSE IF type = "hash"
                  THEN {Some(RedisCommand(<<"H","M","S","E","T">>,
                                          <<info.key>> \o hmset_args(info.fields, p))) :
                           p \in IterOrders(info.fields)}
             ELSE IF type = "list" /\ value.some /\ index.some
                  THEN {Some(RedisCommand(<<"L","S","E","T">>, <<info.key, index.v, value.v>>))}
             ELSE IF type = "list" /\ value.some
                  THEN {Some(RedisCommand(<<"R","P","U","S","H">>, <<info.key, value.v>>))}
             ELSE IF type = "set" /\ member.some
                  THEN {Some(RedisCommand(<<"S","A","D","D">>, <<info.key, member.v>>))}
             ELSE IF type = "zset" /\ member.some /\ score.some
                  THEN {Some(RedisCommand(<<"Z","A","D","D">>, <<info.key, score.v, member.v>>))}
             ELSE generate_delete_command(stmt)

\* the set of results generate_command can have: None, Some(command text),
\* or Panic where `info.limit - 1` overflows
generate_command(stmt) ==
    IF extract_string_get(stmt).some
    THEN {Some(RedisCommand(<<"G","E","T">>, <<extract_string_get(stmt).v.key>>))}
    ELSE IF extract_hash_getall(stmt).some
    THEN {Some(RedisCommand(<<"H","G","E","T","A","L","L">>, <<extract_hash_getall(stmt).v.key>>))}
    ELSE IF extract_hash_get(stmt).some
    THEN {Some(RedisCommand(<<"H","G","E","T">>,
                            <<extract_hash_get(stmt).v.key, extract_hash_get(stmt).v.field>>))}
    ELSE IF extract_hash_multi_get(stmt).some
    THEN {Some(RedisCommand(<<"H","M","G","E","T">>,
                            <<extract_hash_multi_get(stmt).v.key>>
                               \o extract_hash_multi_get(stmt).v.fields))}
    ELSE IF extract_list_get_index(stmt).some
    THEN {Some(RedisCommand(<<"L","I","N","D","E","X">>,
                            <<extract_list_get_index(stmt).v.key,
                              extract_list_get_index(stmt).v.index>>))}
    ELSE IF extract_list_get_range(stmt).some
    THEN {IF st.some
          THEN Some(RedisCommand(<<"L","R","A","N","G","E">>,
                                 <<extract_list_get_range(stmt).v.key, S_0, st.v>>))
          ELSE Panic : st \in limit_minus_one(extract_list_get_range(stmt).v.limit)}
    ELSE IF extract_list_getall(stmt).some
    THEN {Some(RedisCommand(<<"L","R","A","N","G","E">>,
                            <<extract_list_getall(stmt).v.key, S_0, S_m1>>))}
    ELSE IF extract_set_ismember(stmt).some
    THEN {Some(RedisCommand(<<"S","I","S","M","E","M","B","E","R">>,
                            <<extract_set_ismember(stmt).v.key,
                              extract_set_ismember(stmt).v.member>>))}
    ELSE IF extract_set_getall(stmt).some
    THEN {Some(RedisCommand(<<"S","M","E","M","B","E","R","S">>,
                            <<extract_set_getall(stmt).v.key>>))}
    ELSE IF extract_zset_get_reversed(stmt).some
    THEN {Some(RedisCommand(<<"Z","R","E","V","R","A","N","G","E","B","Y","S","C","O","R","E">>,
                            <<extract_zset_get_reversed(stmt).v.key, S_pinf, S_minf>>))}
    ELSE IF extract_zset_get_score_range(stmt).some
    THEN {Some(RedisCommand(<<"Z","R","A","N","G","E","B","Y","S","C","O","R","E">>,
                            <<extract_zset_get_score_range(stmt).v.key,
                              extract_zset_get_score_range(stmt).v.min,
                              extract_zset_get_score_range(stmt).v.max>>))}
    ELSE IF extract_zset_getall(stmt).some
    THEN {Some(RedisCommand(<<"Z","R","A","N","G","E","B","Y","S","C","O","R","E">>,
                            <<extract_zset_getall(stmt).v.key, S_minf, S_pinf>>))}
    ELSE generate_insert_command(stmt)

\* ------------------------------------------------------------------------
\* The inputs: what the SQL parser makes of the texts handed to transform
\* ------------------------------------------------------------------------

K1 == <<"k","1">>
V1 == <<"v","1">>
M1 == <<"m","1">>
F1 == <<"f","1">>
S_name == <<"n","a","m","e">>
S_email == <<"e","m","a","i","l">>
S_KEY == <<"K","E","Y">>
S_7 == <<"7">>
S_10 == <<"1","0">>
S_1000 == <<"1","0","0","0">>

T_string == <<"u">>
T_hash == <<"u">> \o S_hash
T_list == <<"u">> \o S_list
T_set == <<"u">> \o S_set
T_zset == <<"u">> \o S_zset

\* names next to the suffixes: one underscore, upper case, text after the suffix
TableNames ==
    {T_string, T_hash, T_list, T_set, T_zset,
     <<"u","_","s","e","t">>, <<"u">> \o <<"_","_","H","A","S","H">>,
     T_list \o <<"s">>, S_zset, T_hash \o S_set}

Str(s) == Value(SingleQuotedString(s))

Num(s) == Value(Number(s))

Eq(name, lit) == BinaryOp(Identifier(name), "Eq", lit)

And(l, r) == BinaryOp(l, "And", r)

KeyEq == Eq(S_key, Str(K1))

\* the second conditions of a WHERE clause
Conditions ==
    {Eq(S_index, Num(S_0)), Eq(S_member, Str(M1)), Eq(S_field, Str(F1)),
     Eq(S_value, Str(V1)), BinaryOp(Identifier(S_score), "Gt", Num(S_1000)),
     BinaryOp(Identifier(S_score), "LtEq", Num(S_7))}

\* WHERE clauses: Option<Expr>
Selections ==
    {None, Some(KeyEq), Some(Eq(S_key, Num(S_7))), Some(Eq(S_KEY, Str(K1))),
     Some(Eq(S_key, Identifier(K1))), Some(Eq(S_key, Value(Boolean(TRUE)))),
     Some(Eq(S_index, Num(S_0))), Some(BinaryOp(Identifier(S_score), "Gt", Num(S_1000)))}
    \cup {Some(And(KeyEq, c)) : c \in Conditions}
    \cup {Some(And(c, KeyEq)) : c \in Conditions}

Projections ==
    {<<Wildcard>>, <<UnnamedExpr(Identifier(S_value))>>, <<UnnamedExpr(Identifier(S_name))>>,
     <<UnnamedExpr(Identifier(S_name)), UnnamedExpr(Identifier(S_email))>>,
     <<Wildcard, UnnamedExpr(Identifier(S_name))>>}

\* LIMIT clauses: Option<Expr>
Limits ==
    {None, Some(Num(S_10)), Some(Num(<<"1">>)), Some(Num(S_0)), Some(Num(<<"1",".","5">>)),
     Some(Num(<<"0","1","0">>)), Some(Num(S_u64max \o <<"0">>)), Some(Identifier(S_name))}

\* ORDER BY clauses: Option<seq of OrderByExpr>
Orders ==
    {None,
     Some(<<OrderByExpr(Identifier(S_score), Some(FALSE))>>),
     Some(<<OrderByExpr(Identifier(S_score), Some(TRUE))>>),
     Some(<<OrderByExpr(Identifier(S_score), None)>>),
     Some(<<OrderByExpr(Identifier(S_name), None), OrderByExpr(Identifier(S_score), Some(FALSE))>>)}

\* the five kinds of table
KindTables == {T_string, T_hash, T_list, T_set, T_zset}

\* the WHERE clauses tried with every projection, LIMIT and ORDER BY
MainSelections ==
    {None, Some(KeyEq), Some(And(KeyEq, Eq(S_index, Num(S_0)))),
     Some(And(KeyEq, BinaryOp(Identifier(S_score), "Gt", Num(S_1000))))}

SelectOf(proj, tb, sel, lim, ord) == Query(Select(proj, <<Table(<<tb>>)>>, sel), lim, ord)

SelectStatements ==
    {SelectOf(<<Wildcard>>, tb, Some(KeyEq), None, None) : tb \in TableNames}
    \cup {SelectOf(<<Wildcard>>, tb, sel, None, None) : tb \in KindTables, sel \in Selections}
    \cup {SelectOf(<<Wildcard>>, tb, sel, lim, None) :
             tb \in KindTables, sel \in MainSelections, lim \in Limits}
    \cup {SelectOf(<<Wildcard>>, tb, sel, None, ord) :
             tb \in KindTables, sel \in MainSelections, ord \in Orders}
    \cup {SelectOf(<<Wildcard>>, tb, Some(KeyEq), lim, ord) :
             tb \in {T_list, T_zset}, lim \in Limits, ord \in Orders}
    \cup {SelectOf(proj, tb, sel, None, None) :
             proj \in Projections, tb \in KindTables, sel \in MainSelections}
    \cup {Query(SetOperation, None, None),
          Query(Select(<<Wildcard>>, <<>>, Some(KeyEq)), None, None),
          Query(Select(<<Wildcard>>, <<Derived>>, Some(KeyEq)), None, None),
          Query(Select(<<Wildcard>>, <<Table(<<T_string>>), Table(<<T_list>>)>>,
                       Some(And(KeyEq, Eq(S_index, Num(S_0))))), None, None)}

ColumnLists ==
    {<<S_key, S_value>>, <<S_value, S_key>>, <<S_key, S_member>>,
     <<S_key, S_member, S_score>>, <<S_key, S_name>>, <<S_key, S_name, S_email>>,
     <<S_KEY, S_value>>, <<S_key>>, <<>>, <<S_member, S_score, S_key>>}

\* the rows of a VALUES clause with n columns
RowsOf(n) ==
    LET lits == <<Str(K1), Str(V1), Num(S_7)>>
        row == [i \in 1..n |-> lits[i]]
    IN  {<<row>>, <<row, row>>, <<[i \in 1..n |-> IF i = n THEN Identifier(S_name) ELSE lits[i]]>>,
         <<row, <<Str(K1)>> >>}

InsertOf(tb, cols, rows) ==
    Insert(TableName(<<tb>>), cols, Some(Query(Values(rows), None, None)))

InsertStatements ==
    {InsertOf(tb, cols, rows) :
        tb \in KindTables, cols \in ColumnLists, rows \in RowsOf(2) \cup RowsOf(3)}
    \cup {InsertOf(tb, <<S_key, S_value>>, << <<Str(K1), Str(V1)>> >>) : tb \in TableNames}
    \cup {InsertOf(tb, <<S_key>>, << <<Str(K1)>> >>) : tb \in KindTables}
    \cup {Insert(TableName(<<tb>>), <<S_key, S_value>>, None) : tb \in KindTables}
    \cup {Insert(TableName(<<T_string>>), <<S_key, S_value>>,
                 Some(Query(Select(<<Wildcard>>, <<Table(<<T_string>>)>>, None), None, None)))}

Set(name, e) == Assignment(ColumnName(<<name>>), e)

AssignmentLists ==
    {<<Set(S_value, Str(V1))>>, <<Set(S_name, Str(V1))>>,
     <<Set(S_name, Str(V1)), Set(S_email, Str(M1))>>,
     <<Set(S_score, Num(S_7))>>, <<Set(S_value, Identifier(S_name))>>,
     <<Assignment(TupleTarget, Str(V1))>>, <<Set(S_name, Str(V1)), Set(S_name, Str(M1))>>}

\* the WHERE clauses of the UPDATE statements
UpdateSelections ==
    {None, Some(KeyEq), Some(Eq(S_key, Num(S_7))), Some(Eq(S_index, Num(S_0))),
     Some(And(KeyEq, Eq(S_index, Num(S_0)))), Some(And(KeyEq, Eq(S_member, Str(M1)))),
     Some(And(Eq(S_index, Num(S_0)), KeyEq))}

UpdateStatements ==
    {Update(Table(<<tb>>), asg, sel) :
        tb \in KindTables, asg \in AssignmentLists, sel \in UpdateSelections}
    \cup {Update(Table(<<tb>>), <<Set(S_value, Str(V1))>>, Some(KeyEq)) : tb \in TableNames}
    \cup {Update(Derived, <<Set(S_value, Str(V1))>>, Some(KeyEq))}

DeleteStatements ==
    {Delete(<<>>, <<Table(<<tb>>)>>, sel) : tb \in KindTables, sel \in Selections}
    \cup {Delete(<<>>, <<Table(<<tb>>)>>, Some(KeyEq)) : tb \in TableNames}
    \cup {Delete(<<>>, <<Derived>>, Some(KeyEq))}

Statements == SelectStatements \cup InsertStatements \cup UpdateStatements \cup DeleteStatements

\* a text the parser rejects, an empty text, one statement, two statements
Inputs ==
    {ParseFailure, Parsed(<<>>)}
    \cup {Parsed(<<s>>) : s \in Statements}
    \cup {Parsed(<<Query(Select(<<Wildcard>>, <<Table(<<T_string>>)>>, Some(KeyEq)), None, None),
                   Delete(<<>>, <<Table(<<T_string>>)>>, Some(KeyEq))>>)}

\* the inputs of the calls made before and between the calls under study
OtherInputs ==
    {ParseFailure,
     Parsed(<<Query(Select(<<Wildcard>>, <<Table(<<T_hash>>)>>, Some(KeyEq)), None, None)>>)}

\* ------------------------------------------------------------------------
\* lib.rs: the transformers and the calls of transform
\* ------------------------------------------------------------------------

\* separately constructed transformers
NumTransformers == 2

Transformers == 1..NumTransformers

\* no call made yet
NoResult == [tag |-> "None"]

Callers == 1..NumCallers

Init ==
    /\ rules = [t \in Transformers |-> create_rules]
    /\ templates = [t \in Transformers |-> register_command_templates]
    /\ sql \in Inputs
    /\ result = NoResult
    /\ firstResult = NoResult
    /\ other = NoResult
    /\ calls = 0
    /\ pc = [c \in Callers |-> 0]
    /\ returned = [c \in Callers |-> NoResult]
    /\ operands = NoResult

\* transformer t is handed the input under study
Transform(t) ==
    /\ calls < MaxCalls
    /\ result' \in transform(rules[t], templates[t], sql)
    /\ firstResult' = IF firstResult = NoResult THEN result' ELSE firstResult
    /\ calls' = calls + 1
    /\ UNCHANGED <<rules, templates, sql, other, pc, returned, operands>>

\* transformer t is handed another input
TransformOther(t, s) ==
    /\ calls < MaxCalls
    /\ other' \in transform(rules[t], templates[t], s)
    /\ calls' = calls + 1
    /\ UNCHANGED <<rules, templates, sql, result, firstResult, pc, returned, operands>>

Next ==
    \/ \E t \in Transformers : Transform(t)
    \/ \E t \in Transformers, s \in OtherInputs : TransformOther(t, s)

Spec == Init /\ [][Next]_vars

\* ------------------------------------------------------------------------
\* lib.rs: transform run by several callers on one shared transformer, one
\* step of the call at a time; the callers share transformer 1. pc[c] = 0:
\* caller c is not inside transform;
\* pc[c] = i >= 1: the loop of caller c is about to test rule i. returned[c] is
\* what the call of caller c returned.
\* ------------------------------------------------------------------------

\* inputs of the concurrent calls: hash INSERT of two fields, list SELECT with
\* LIMIT 10 and LIMIT 0, hash DELETE, set SELECT with two conditions, a text
\* the parser rejects, an empty text
ConcurrentInputs ==
    {Parsed(<<InsertOf(T_hash, <<S_key, S_name, S_email>>, << <<Str(K1), Str(V1), Num(S_7)>> >>)>>),
     Parsed(<<SelectOf(<<Wildcard>>, T_list, Some(KeyEq), Some(Num(S_10)), None)>>),
     Parsed(<<SelectOf(<<Wildcard>>, T_list, Some(KeyEq), Some(Num(S_0)), None)>>),
     Parsed(<<Delete(<<>>, <<Table(<<T_hash>>)>>, Some(KeyEq))>>),
     Parsed(<<SelectOf(<<Wildcard>>, T_set, Some(And(KeyEq, Eq(S_member, Str(M1)))), None, None)>>),
     ParseFailure, Parsed(<<>>)}

ConcurrentInit == Init /\ sql \in ConcurrentInputs

\* caller c enters transform: the text is parsed and the first statement taken
Begin(c) ==
    /\ pc[c] = 0
    /\ returned[c] = NoResult
    /\ IF sql.parse = "Err" \/ sql.ast = <<>>
       THEN returned' = [returned EXCEPT ![c] = SqlParseError] /\ pc' = pc
       ELSE pc' = [pc EXCEPT ![c] = 1] /\ returned' = returned
    /\ UNCHANGED <<rules, templates, sql, result, firstResult, other, calls, operands>>

\* one turn of the loop over the rules in the call of caller c
TryRule(c) ==
    /\ pc[c] >= 1
    /\ LET rs == rules[1]
           i == pc[c]
       IN  IF i > Len(rs)
           THEN /\ returned' = [returned EXCEPT ![c] = NoMatchingPattern(sql)]
                /\ pc' = [pc EXCEPT ![c] = 0]
           ELSE IF ~matches(rs[i], sql.ast[1])
           THEN pc' = [pc EXCEPT ![c] = i + 1] /\ returned' = returned
           ELSE \E ctx \in get_context(rs[i], sql.ast[1]) :
                   IF ctx = Panic
                   THEN returned' = [returned EXCEPT ![c] = Aborted] /\ pc' = [pc EXCEPT ![c] = 0]
                   ELSE IF ctx.some
                   THEN LET r == render(templates[1], rs[i].template_name, ctx.v)
                        IN  /\ returned' = [returned EXCEPT ![c] =
                                          IF r.ok THEN Ok(r.v) ELSE TemplateError(r.e)]
                            /\ pc' = [pc EXCEPT ![c] = 0]
                   ELSE pc' = [pc EXCEPT ![c] = i + 1] /\ returned' = returned
    /\ UNCHANGED <<rules, templates, sql, result, firstResult, other, calls, operands>>

\* the concurrent calls, next to a call that runs alone (Transform)
ConcurrentNext ==
    \/ \E c \in Callers : Begin(c)
    \/ \E c \in Callers : TryRule(c)
    \/ Transform(1)

ConcurrentSpec == ConcurrentInit /\ [][ConcurrentNext]_vars

\* ------------------------------------------------------------------------
\* rules/mod.rs, lib.rs: a transformer whose registry has two rules exchanged,
\* next to a transformer with the registry as shipped
\* ------------------------------------------------------------------------

\* the registry with the rules at positions i and j exchanged
Swap(rs, i, j) ==
    [k \in 1..Len(rs) |-> IF k = i THEN rs[j] ELSE IF k = j THEN rs[i] ELSE rs[k]]

\* the pairs of registry positions whose predicates are never both true on
\* one statement
NonOverlappingPairs ==
    {p \in (1..Len(create_rules)) \X (1..Len(create_rules)) :
        /\ p[1] < p[2]
        /\ \A s \in Statements :
              ~(matches(create_rules[p[1]], s) /\ matches(create_rules[p[2]], s))}

\* statements handed to both transformers: list SELECT with and without LIMIT,
\* sorted-set SELECT ordered by score, string SELECT, set INSERT, hash DELETE
SwapInputs ==
    {Parsed(<<SelectOf(<<Wildcard>>, T_list, Some(KeyEq), Some(Num(S_10)), None)>>),
     Parsed(<<SelectOf(<<Wildcard>>, T_list, Some(KeyEq), None, None)>>),
     Parsed(<<SelectOf(<<Wildcard>>, T_zset, Some(KeyEq), None,
                       Some(<<OrderByExpr(Identifier(S_score), Some(FALSE))>>))>>),
     Parsed(<<SelectOf(<<Wildcard>>, T_string, Some(KeyEq), None, None)>>),
     Parsed(<<InsertOf(T_set, <<S_key, S_member>>, << <<Str(K1), Str(V1)>> >>)>>),
     Parsed(<<Delete(<<>>, <<Table(<<T_hash>>)>>, Some(KeyEq))>>)}

\* transformer 1 has the registry as shipped, the others the registry with
\* one pair of non-overlapping rules exchanged
SwapInit ==
    /\ \E p \in NonOverlappingPairs :
          rules = [t \in Transformers |->
                      IF t = 1 THEN create_rules ELSE Swap(create_rules, p[1], p[2])]
    /\ templates = [t \in Transformers |-> register_command_templates]
    /\ sql \in SwapInputs
    /\ result = NoResult
    /\ firstResult = NoResult
    /\ other = NoResult
    /\ calls = 0
    /\ pc = [c \in Callers |-> 0]
    /\ returned = [c \in Callers |-> NoResult]
    /\ operands = NoResult

SwapSpec == SwapInit /\ [][Next]_vars

\* ------------------------------------------------------------------------
\* Properties
\* ------------------------------------------------------------------------

\* the input parsed to at least one statement; transform reads the first
HasStmt == sql.parse = "Ok" /\ sql.ast # <<>>

Stmt == sql.ast[1]

\* the input under study has been transformed at least once
Called == result # NoResult

\* a command text: words separated by single spaces
Cmd(words) == Join(words, SP)

\* the registry indexes of the rules that match stmt and build a context
Applicable(rs, stmt) ==
    {i \in 1..Len(rs) : matches(rs[i], stmt) /\ \E c \in get_context(rs[i], stmt) : c.some}

\* what rendering the template of rule r with a context it builds can return
Renderings(r, tpls, stmt) ==
    {LET out == render(tpls, r.template_name, c.v)
     IN  IF out.ok THEN Ok(out.v) ELSE TemplateError(out.e) :
        c \in {x \in get_context(r, stmt) : x.some}}

Lowest(S) == CHOOSE i \in S : \A j \in S : i <= j

\* C1: for a parsed statement the result of transform is the rendering of the
\* template of the lowest-index rule that matches and builds a context, whatever
\* later rules would give; rules that match but build no context are passed
\* over without an error of their own, so that with no applicable rule the
\* result is NoMatchingPattern.
C1_FirstApplicableRuleWins ==
    (Called /\ HasStmt) =>
        \A t \in Transformers :
            IF Applicable(rules[t], Stmt) = {}
            THEN result = NoMatchingPattern(sql)
            ELSE result \in Renderings(rules[t][Lowest(Applicable(rules[t], Stmt))],
                                       templates[t], Stmt)

T_SelectList10 == Parsed(<<SelectOf(<<Wildcard>>, T_list, Some(KeyEq), Some(Num(S_10)), None)>>)

\* two rules apply to a list SELECT with LIMIT 10 (list_getall at a lower index
\* than list_get_range) and the call has returned
C1_Witness ==
    /\ sql = T_SelectList10
    /\ Cardinality(Applicable(rules[1], Stmt)) = 2
    /\ result = Ok(Cmd(<<<<"L","R","A","N","G","E">>, K1, S_0, S_m1>>))

\* C2: when no rule matches and builds a context, the result is the command
\* of generate_command if it has one, and NoMatchingPattern only if it has none.
C2_FallsBackToGenerateCommand ==
    (Called /\ HasStmt /\ Applicable(rules[1], Stmt) = {}) =>
        \E g \in generate_command(Stmt) :
            result = IF g.some THEN Ok(g.v) ELSE NoMatchingPattern(sql)

ErrorKinds == {"SqlParseError", "NoMatchingPattern", "TemplateError"}

\* C3: a call ends with one command text or with one error value, the
\* NoMatchingPattern error carrying the input as given; it never ends by
\* aborting.
C3_OneOutcome ==
    Called =>
        \/ result.tag = "Ok" /\ Len(result.cmd) > 0
        \/ /\ result.tag = "Err"
           /\ result.kind \in ErrorKinds
           /\ result.kind = "NoMatchingPattern" => result.sql = sql

\* LIMIT 0 on a list table, where `limit - 1` would overflow: the call returned
C3_Witness ==
    /\ sql = Parsed(<<SelectOf(<<Wildcard>>, T_list, Some(KeyEq), Some(Num(S_0)), None)>>)
    /\ Panic \in ListGetRangeContextBuilder(Stmt)
    /\ result = Ok(Cmd(<<<<"L","R","A","N","G","E">>, K1, S_0, S_m1>>))

\* C4: any two calls with the same valid input return equal results, on one
\* transformer or on two, whatever calls were made before or between.
C4_Deterministic ==
    (calls >= 2 /\ Called /\ sql.parse = "Ok") => result = firstResult

\* a name has the suffix
HasSuffix(name, suffix) ==
    \E k \in 0..Len(name) : SubSeq(name, k + 1, Len(name)) = suffix

Kinds == {"String", "Hash", "List", "Set", "SortedSet"}

\* the kind the suffix of a table name stands for
KindOfName(name) ==
    IF HasSuffix(name, S_hash) THEN "Hash"
    ELSE IF HasSuffix(name, S_list) THEN "List"
    ELSE IF HasSuffix(name, S_set) THEN "Set"
    ELSE IF HasSuffix(name, S_zset) THEN "SortedSet"
    ELSE "String"

\* the kind named by a determine_table_type result
KindOfTag(tag) ==
    CASE tag = "hash" -> "Hash" [] tag = "list" -> "List" [] tag = "set" -> "Set"
      [] tag = "zset" -> "SortedSet" [] tag = "string" -> "String"

\* the kinds the table-name predicates give a name
NameKinds(name) ==
    {k \in Kinds :
        CASE k = "Hash" -> is_hash_table_name(name)
          [] k = "List" -> is_list_table_name(name)
          [] k = "Set" -> is_set_table_name(name)
          [] k = "SortedSet" -> is_zset_table_name(name)
          [] k = "String" -> is_string_table_name(name)}

\* the table name of a statement, by the accessor of its statement kind
StatementTable(stmt) ==
    CASE stmt.kind = "Query" -> select_table_name(stmt)
      [] stmt.kind = "Insert" -> insert_get_table_name(stmt)
      [] stmt.kind = "Update" -> upd_get_table_name(stmt)
      [] stmt.kind = "Delete" -> delete_get_table_name(stmt)

\* the kinds the predicates of the statement's kind give its table
StatementKinds(stmt) ==
    {k \in Kinds :
        CASE stmt.kind = "Query" ->
                (CASE k = "Hash" -> select_is_hash_table(stmt)
                   [] k = "List" -> select_is_list_table(stmt)
                   [] k = "Set" -> select_is_set_table(stmt)
                   [] k = "SortedSet" -> select_is_zset_table(stmt)
                   [] k = "String" -> select_is_string_table(stmt))
          [] stmt.kind = "Insert" ->
                (CASE k = "Hash" -> insert_is_hash_table(stmt)
                   [] k = "List" -> insert_is_list_table(stmt)
                   [] k = "Set" -> insert_is_set_table(stmt)
                   [] k = "SortedSet" -> insert_is_zset_table(stmt)
                   [] k = "String" -> insert_is_string_table(stmt))
          [] stmt.kind = "Update" ->
                (CASE k = "Hash" -> update_is_hash_table(stmt)
                   [] k = "List" -> update_is_list_table(stmt)
                   [] k = "Set" -> update_is_set_table(stmt)
                   [] k = "SortedSet" -> update_is_zset_table(stmt)
                   [] k = "String" -> update_is_string_table(stmt))
          [] stmt.kind = "Delete" ->
                (CASE k = "Hash" -> delete_is_hash_table(stmt)
                   [] k = "List" -> delete_is_list_table(stmt)
                   [] k = "Set" -> delete_is_set_table(stmt)
                   [] k = "SortedSet" -> delete_is_zset_table(stmt)
                   [] k = "String" -> delete_is_string_table(stmt))}

\* C5: every table name gets exactly one kind, the one its suffix stands for
\* (String without one of the four suffixes), and get_redis_data_type, the two
\* determine_table_type helpers, the table-name predicates and the predicates
\* of the statement's kind all give that kind.
C5_TableClassification ==
    (HasStmt /\ StatementTable(Stmt).some) =>
        LET name == StatementTable(Stmt).v IN
        /\ get_redis_data_type(name) = KindOfName(name)
        /\ KindOfTag(commands_determine_table_type(name)) = KindOfName(name)
        /\ KindOfTag(extractors_determine_table_type(name)) = KindOfName(name)
        /\ NameKinds(name) = {KindOfName(name)}
        /\ StatementKinds(Stmt) = {KindOfName(name)}

\* a table named with a single underscore before `set` was classified String
\* and read with GET
C5_Witness ==
    /\ sql = Parsed(<<SelectOf(<<Wildcard>>, <<"u","_","s","e","t">>, Some(KeyEq), None, None)>>)
    /\ get_redis_data_type(StatementTable(Stmt).v) = "String"
    /\ result = Ok(Cmd(<<<<"G","E","T">>, K1>>))

\* the expression is the single equality `key = K`, K a string or number literal
IsKeyEquals(e) ==
    /\ e.t = "BinaryOp"
    /\ e.op = "Eq"
    /\ e.left.t = "Identifier"
    /\ to_lowercase(e.left.value) = S_key
    /\ e.right.t = "Value"
    /\ e.right.value.t \in {"SingleQuotedString", "DoubleQuotedString", "Number"}

\* the expression is `name = V`, V a string or number literal
IsFieldEquals(e, name) ==
    /\ e.t = "BinaryOp"
    /\ e.op = "Eq"
    /\ e.left.t = "Identifier"
    /\ to_lowercase(e.left.value) = name
    /\ e.right.t = "Value"
    /\ e.right.value.t \in {"SingleQuotedString", "DoubleQuotedString", "Number"}

\* the expression is `key = K AND c`
IsKeyAnd(e) == e.t = "BinaryOp" /\ e.op = "And" /\ IsKeyEquals(e.left)

\* the literal of an equality
LiteralOf(e) == e.right.value.s

\* a SELECT from one named table
IsSelectFromTable(stmt) ==
    /\ stmt.kind = "Query"
    /\ stmt.body.t = "Select"
    /\ Len(stmt.body.from) = 1
    /\ stmt.body.from[1].t = "Table"
    /\ stmt.body.from[1].name # <<>>

SelectKind(stmt) == KindOfName(stmt.body.from[1].name[1])

IsIdentifierItem(item) == item.t = "UnnamedExpr" /\ item.expr.t = "Identifier"

C7_ListLimit ==
    (/\ Called
     /\ HasStmt
     /\ IsSelectFromTable(Stmt)
     /\ SelectKind(Stmt) = "List"
     /\ Stmt.body.projection = <<Wildcard>>
     /\ Stmt.body.selection.some
     /\ IsKeyEquals(Stmt.body.selection.v)
     /\ ~Stmt.order_by.some
     /\ Stmt.limit.some
     /\ Stmt.limit.v.t = "Value"
     /\ Stmt.limit.v.value.t = "Number"
     /\ parse_u64(Stmt.limit.v.value.s).some
     /\ parse_u64(Stmt.limit.v.value.s).v # S_0) =>
        result = Ok(Cmd(<<<<"L","R","A","N","G","E">>, LiteralOf(Stmt.body.selection.v), S_0,
                          StripZeros(DecBorrow(parse_u64(Stmt.limit.v.value.s).v))>>))

\* C8: a wildcard SELECT on a sorted-set table with WHERE key = K and
\* ORDER BY score DESC, no LIMIT, gives ZREVRANGEBYSCORE K +inf -inf.
C8_ZSetReversed ==
    (/\ Called
     /\ HasStmt
     /\ IsSelectFromTable(Stmt)
     /\ SelectKind(Stmt) = "SortedSet"
     /\ Stmt.body.projection = <<Wildcard>>
     /\ Stmt.body.selection.some
     /\ IsKeyEquals(Stmt.body.selection.v)
     /\ ~Stmt.limit.some
     /\ Stmt.order_by = Some(<<OrderByExpr(Identifier(S_score), Some(FALSE))>>)) =>
        result = Ok(Cmd(<<<<"Z","R","E","V","R","A","N","G","E","B","Y","S","C","O","R","E">>,
                          LiteralOf(Stmt.body.selection.v), S_pinf, S_minf>>))

\* the expression is `score op N`, N a number
IsScoreComparison(e) ==
    /\ e.t = "BinaryOp"
    /\ e.op \in {"Gt", "GtEq", "Lt", "LtEq"}
    /\ e.left.t = "Identifier"
    /\ to_lowercase(e.left.value) = S_score
    /\ e.right.t = "Value"
    /\ e.right.value.t = "Number"

\* the Redis range of `score op N`: an exclusive bound is written (N
RangeOf(op, n) ==
    CASE op = "Gt" -> <<<<"(">> \o n, S_pinf>>
      [] op = "GtEq" -> <<n, S_pinf>>
      [] op = "Lt" -> <<S_minf, <<"(">> \o n>>
      [] op = "LtEq" -> <<S_minf, n>>

\* C9: a wildcard SELECT with WHERE key = K AND c gives LINDEX K I on a list
\* table when c is index = I, SISMEMBER K M on a set table when c is
\* member = M, and ZRANGEBYSCORE K min max on a sorted-set table when c is
\* score op N.
C9_KeyAndConditionSelect ==
    (/\ Called
     /\ HasStmt
     /\ IsSelectFromTable(Stmt)
     /\ Stmt.body.projection = <<Wildcard>>
     /\ Stmt.body.selection.some
     /\ IsKeyAnd(Stmt.body.selection.v)
     /\ ~Stmt.limit.some
     /\ ~Stmt.order_by.some) =>
        LET K == LiteralOf(Stmt.body.selection.v.left)
            c == Stmt.body.selection.v.right
            kind == SelectKind(Stmt)
        IN  /\ (kind = "List" /\ IsFieldEquals(c, S_index)) =>
                   result = Ok(Cmd(<<<<"L","I","N","D","E","X">>, K, LiteralOf(c)>>))
            /\ (kind = "Set" /\ IsFieldEquals(c, S_member)) =>
                   result = Ok(Cmd(<<<<"S","I","S","M","E","M","B","E","R">>, K, LiteralOf(c)>>))
            /\ (kind = "SortedSet" /\ IsScoreComparison(c)) =>
                   result = Ok(Cmd(<<<<"Z","R","A","N","G","E","B","Y","S","C","O","R","E">>, K,
                                     RangeOf(c.op, c.right.value.s)[1],
                                     RangeOf(c.op, c.right.value.s)[2]>>))

\* a DELETE from one named table
IsDeleteFromTable(stmt) ==
    /\ stmt.kind = "Delete"
    /\ Len(stmt.from) = 1
    /\ stmt.from[1].t = "Table"
    /\ stmt.from[1].name # <<>>

\* C10: a DELETE with WHERE key = K AND f = V gives HDEL K V on a hash table
\* with f = field, LREM K 0 V on a list table with f = value, SREM K V on a
\* set table and ZREM K V on a sorted-set table with f = member.
C10_DeleteElement ==
    (/\ Called
     /\ HasStmt
     /\ IsDeleteFromTable(Stmt)
     /\ Stmt.selection.some
     /\ IsKeyAnd(Stmt.selection.v)) =>
        LET K == LiteralOf(Stmt.selection.v.left)
            c == Stmt.selection.v.right
            kind == KindOfName(Stmt.from[1].name[1])
        IN  /\ (kind = "Hash" /\ IsFieldEquals(c, S_field)) =>
                   result = Ok(Cmd(<<<<"H","D","E","L">>, K, LiteralOf(c)>>))
            /\ (kind = "List" /\ IsFieldEquals(c, S_value)) =>
                   result = Ok(Cmd(<<<<"L","R","E","M">>, K, S_0, LiteralOf(c)>>))
            /\ (kind = "Set" /\ IsFieldEquals(c, S_member)) =>
                   result = Ok(Cmd(<<<<"S","R","E","M">>, K, LiteralOf(c)>>))
            /\ (kind = "SortedSet" /\ IsFieldEquals(c, S_member)) =>
                   result = Ok(Cmd(<<<<"Z","R","E","M">>, K, LiteralOf(c)>>))

\* an UPDATE of one named table
IsUpdateOfTable(stmt) ==
    /\ stmt.kind = "Update"
    /\ stmt.table.t = "Table"
    /\ stmt.table.name # <<>>

\* the SET clause is the single assignment `name = V`, V a string or number literal
IsSingleAssignment(asg) ==
    /\ Len(asg) = 1
    /\ asg[1].target.t = "ColumnName"
    /\ Len(asg[1].target.name) = 1
    /\ asg[1].value.t = "Value"
    /\ asg[1].value.value.t \in {"SingleQuotedString", "DoubleQuotedString", "Number"}

\* C11: the documented UPDATE shapes give their commands: SET K V on a string
\* table (SET value = V WHERE key = K), HSET K f V on a hash table (one
\* assignment f = V WHERE key = K), LSET K I V on a list table (SET value = V
\* WHERE key = K AND index = I), ZADD K S M on a sorted-set table (SET score = S
\* WHERE key = K AND member = M).
C11_UpdateShapes ==
    (/\ Called
     /\ HasStmt
     /\ IsUpdateOfTable(Stmt)
     /\ IsSingleAssignment(Stmt.assignments)
     /\ Stmt.selection.some) =>
        LET kind == KindOfName(Stmt.table.name[1])
            f == Stmt.assignments[1].target.name[1]
            V == Stmt.assignments[1].value.value.s
            w == Stmt.selection.v
        IN  /\ (kind = "String" /\ f = S_value /\ IsKeyEquals(w)) =>
                   result = Ok(Cmd(<<<<"S","E","T">>, LiteralOf(w), V>>))
            /\ (kind = "Hash" /\ IsKeyEquals(w)) =>
                   result = Ok(Cmd(<<<<"H","S","E","T">>, LiteralOf(w), f, V>>))
            /\ (kind = "List" /\ f = S_value /\ IsKeyAnd(w) /\ IsFieldEquals(w.right, S_index)) =>
                   result = Ok(Cmd(<<<<"L","S","E","T">>, LiteralOf(w.left), LiteralOf(w.right), V>>))
            /\ (kind = "SortedSet" /\ f = S_score /\ IsKeyAnd(w)
                    /\ IsFieldEquals(w.right, S_member)) =>
                   result = Ok(Cmd(<<<<"Z","A","D","D">>, LiteralOf(w.left), V, LiteralOf(w.right)>>))

\* C12: a DELETE with WHERE exactly key = K gives DEL K on a table of any kind.
C12_DeleteKey ==
    (/\ Called
     /\ HasStmt
     /\ IsDeleteFromTable(Stmt)
     /\ Stmt.selection.some
     /\ IsKeyEquals(Stmt.selection.v)) =>
        result = Ok(Cmd(<<<<"D","E","L">>, LiteralOf(Stmt.selection.v)>>))

\* a string or number literal
IsLiteral(e) ==
    e.t = "Value" /\ e.value.t \in {"SingleQuotedString", "DoubleQuotedString", "Number"}

\* an INSERT into one named table of a single VALUES row of literals, one for
\* each column of the column list
IsSingleRowInsert(stmt) ==
    /\ stmt.kind = "Insert"
    /\ stmt.table.t = "TableName"
    /\ stmt.table.name # <<>>
    /\ stmt.source.some
    /\ stmt.source.v.body.t = "Values"
    /\ Len(stmt.source.v.body.rows) = 1
    /\ Len(stmt.source.v.body.rows[1]) = Len(stmt.columns)
    /\ \A i \in 1..Len(stmt.columns) : IsLiteral(stmt.source.v.body.rows[1][i])

\* the column list names exactly the columns of the set, each once, in any order
ColumnsAre(stmt, names) ==
    /\ {stmt.columns[i] : i \in 1..Len(stmt.columns)} = names
    /\ Len(stmt.columns) = Cardinality(names)

\* the literal written for column c in the single row
ColumnLiteral(stmt, c) ==
    LET i == CHOOSE j \in 1..Len(stmt.columns) : stmt.columns[j] = c
    IN  stmt.source.v.body.rows[1][i].value.s

\* C13: a single-row INSERT of literals with exactly the documented columns, in
\* any order, gives SET K V (string table, key and value), RPUSH K V (list
\* table, key and value), SADD K M (set table, key and member) and ZADD K S M
\* (sorted-set table, key, member and score), the score before the member.
C13_InsertShapes ==
    (Called /\ HasStmt /\ IsSingleRowInsert(Stmt)) =>
        LET kind == KindOfName(Stmt.table.name[1]) IN
        /\ (kind = "String" /\ ColumnsAre(Stmt, {S_key, S_value})) =>
               result = Ok(Cmd(<<<<"S","E","T">>, ColumnLiteral(Stmt, S_key),
                                 ColumnLiteral(Stmt, S_value)>>))
        /\ (kind = "List" /\ ColumnsAre(Stmt, {S_key, S_value})) =>
               result = Ok(Cmd(<<<<"R","P","U","S","H">>, ColumnLiteral(Stmt, S_key),
                                 ColumnLiteral(Stmt, S_value)>>))
        /\ (kind = "Set" /\ ColumnsAre(Stmt, {S_key, S_member})) =>
               result = Ok(Cmd(<<<<"S","A","D","D">>, ColumnLiteral(Stmt, S_key),
                                 ColumnLiteral(Stmt, S_member)>>))
        /\ (kind = "SortedSet" /\ ColumnsAre(Stmt, {S_key, S_member, S_score})) =>
               result = Ok(Cmd(<<<<"Z","A","D","D">>, ColumnLiteral(Stmt, S_key),
                                 ColumnLiteral(Stmt, S_score), ColumnLiteral(Stmt, S_member)>>))

\* a sorted-set INSERT that lists member, score, key in that order has returned
\* ZADD with the key first and the score before the member
C13_Witness ==
    /\ sql = Parsed(<<InsertOf(T_zset, <<S_member, S_score, S_key>>,
                               << <<Str(K1), Str(V1), Num(S_7)>> >>)>>)
    /\ result = Ok(Cmd(<<<<"Z","A","D","D">>, S_7, V1, K1>>))

\* the positions of the columns other than key
FieldPositions(stmt) == {i \in 1..Len(stmt.columns) : stmt.columns[i] # S_key}

\* the orders in which n pairs can be written
PairOrders(P) ==
    {p \in [1..Cardinality(P) -> P] : \A i, j \in 1..Cardinality(P) : i # j => p[i] # p[j]}

\* C14: a single-row INSERT of literals into a hash table with the columns key,
\* f1..fn (n >= 1) gives HSET K followed by the n pairs fi vi, each field next
\* to its own value, every pair once, in some order of the pairs.
C14_HashInsertPairs ==
    (/\ Called
     /\ HasStmt
     /\ IsSingleRowInsert(Stmt)
     /\ KindOfName(Stmt.table.name[1]) = "Hash"
     /\ \E i \in 1..Len(Stmt.columns) : Stmt.columns[i] = S_key
     /\ \A i, j \in 1..Len(Stmt.columns) : i # j => Stmt.columns[i] # Stmt.columns[j]
     /\ FieldPositions(Stmt) # {}) =>
        \E p \in PairOrders(FieldPositions(Stmt)) :
            result = Ok(Cmd(<<<<"H","S","E","T">>, ColumnLiteral(Stmt, S_key)>>
                            \o [i \in 1..(2 * Cardinality(FieldPositions(Stmt))) |->
                                   IF i % 2 = 1
                                   THEN Stmt.columns[p[(i + 1) \div 2]]
                                   ELSE Stmt.source.v.body.rows[1][p[i \div 2]].value.s]))

\* a hash INSERT of two fields has returned the pairs in the order opposite to
\* the column list, each field still followed by its own value
C14_Witness ==
    /\ sql = Parsed(<<InsertOf(T_hash, <<S_key, S_name, S_email>>,
                               << <<Str(K1), Str(V1), Num(S_7)>> >>)>>)
    /\ result = Ok(Cmd(<<<<"H","S","E","T">>, K1, S_email, S_7, S_name, V1>>))

\* C15: an UPDATE of a hash table with two or more assignments f1 = v1, ...,
\* fn = vn of literals and WHERE key = K gives HSET K f1 v1 ... fn vn, the pairs
\* in the order the assignments were written.
C15_HashUpdateOrder ==
    (/\ Called
     /\ HasStmt
     /\ IsUpdateOfTable(Stmt)
     /\ KindOfName(Stmt.table.name[1]) = "Hash"
     /\ Len(Stmt.assignments) >= 2
     /\ \A i \in 1..Len(Stmt.assignments) :
           /\ Stmt.assignments[i].target.t = "ColumnName"
           /\ Len(Stmt.assignments[i].target.name) = 1
           /\ IsLiteral(Stmt.assignments[i].value)
     /\ \A i, j \in 1..Len(Stmt.assignments) :
           i # j => Stmt.assignments[i].target.name # Stmt.assignments[j].target.name
     /\ Stmt.selection.some
     /\ IsKeyEquals(Stmt.selection.v)) =>
        result = Ok(Cmd(<<<<"H","S","E","T">>, LiteralOf(Stmt.selection.v)>>
                        \o [i \in 1..(2 * Len(Stmt.assignments)) |->
                               IF i % 2 = 1
                               THEN Stmt.assignments[(i + 1) \div 2].target.name[1]
                               ELSE Stmt.assignments[i \div 2].value.value.s]))

\* C16: a wildcard SELECT on a sorted-set table with WHERE key = K, ORDER BY
\* score DESC and a LIMIT gives ZRANGEBYSCORE K -inf +inf: neither the ordering
\* nor the limit shows in the command.
C16_ZSetReversedWithLimit ==
    (/\ Called
     /\ HasStmt
     /\ IsSelectFromTable(Stmt)
     /\ SelectKind(Stmt) = "SortedSet"
     /\ Stmt.body.projection = <<Wildcard>>
     /\ Stmt.body.selection.some
     /\ IsKeyEquals(Stmt.body.selection.v)
     /\ Stmt.limit.some
     /\ Stmt.order_by = Some(<<OrderByExpr(Identifier(S_score), Some(FALSE))>>)) =>
        result = Ok(Cmd(<<<<"Z","R","A","N","G","E","B","Y","S","C","O","R","E">>,
                          LiteralOf(Stmt.body.selection.v), S_minf, S_pinf>>))

\* the statement of the integration test (ORDER BY score DESC LIMIT 10) also
\* has the reversed shape, and the call has returned the ascending full range
C16_Witness ==
    /\ sql = Parsed(<<SelectOf(<<Wildcard>>, T_zset, Some(KeyEq), Some(Num(S_10)),
                               Some(<<OrderByExpr(Identifier(S_score), Some(FALSE))>>))>>)
    /\ is_zset_get_reversed(Stmt)
    /\ result = Ok(Cmd(<<<<"Z","R","A","N","G","E","B","Y","S","C","O","R","E">>,
                         K1, S_minf, S_pinf>>))

\* a wildcard SELECT on a list table with WHERE key = K and LIMIT 0
IsListRangeLimitZero(stmt) ==
    /\ IsSelectFromTable(stmt)
    /\ SelectKind(stmt) = "List"
    /\ stmt.body.projection = <<Wildcard>>
    /\ stmt.body.selection.some
    /\ IsKeyEquals(stmt.body.selection.v)
    /\ stmt.limit = Some(Num(S_0))

\* C17: for a list range statement with LIMIT 0 the stop index limit - 1 is -1:
\* ListGetRangeContextBuilder builds the context with stop = "-1" and
\* generate_command gives LRANGE K 0 -1; the subtraction neither wraps around
\* nor aborts.
C17_LimitZeroStop ==
    (HasStmt /\ IsListRangeLimitZero(Stmt)) =>
        LET K == LiteralOf(Stmt.body.selection.v) IN
        /\ ListGetRangeContextBuilder(Stmt) = {Some([key |-> K, start |-> S_0, stop |-> S_m1])}
        /\ generate_command(Stmt) = {Some(Cmd(<<<<"L","R","A","N","G","E">>, K, S_0, S_m1>>))}

\* the registry and the templates of every transformer are as built at construction
RegistryAsBuilt ==
    /\ rules = [t \in Transformers |-> create_rules]
    /\ templates = [t \in Transformers |-> register_command_templates]

\* C18: no call changes the registry or other state the calls share: after any
\* sequence of calls the registry is the one built at construction, and a call
\* that ran interleaved with other calls on the shared transformer returned
\* the result the call returns when it runs alone.
C18_CallsDoNotInterfere ==
    /\ RegistryAsBuilt
    /\ \A c \in Callers : (returned[c] # NoResult /\ Called) => returned[c] = result

\* a call that ran interleaved returned one of the results the call run alone
\* can return
InterleavedOutcomeIsSoloOutcome ==
    \A c \in Callers :
        returned[c] # NoResult =>
            returned[c] \in transform(create_rules, register_command_templates, sql)

\* the registry indexes of the rules whose predicate is true on stmt
Matching(rs, stmt) == {i \in 1..Len(rs) : matches(rs[i], stmt)}

\* C20: the shapes of the shipped rules are pairwise disjoint: on every
\* statement at most one rule of the registry has a true predicate.
C20_ShapesDisjoint ==
    HasStmt => \A t \in Transformers : Cardinality(Matching(rules[t], Stmt)) <= 1

\* C19: exchanging the registry positions of two rules whose predicates are
\* never both true on one statement leaves the results of transform as they
\* were with the shipped registry, for every statement.
C19_SwapNonOverlapping ==
    HasStmt =>
        \A t \in Transformers :
            transform(rules[t], templates[t], sql)
                = transform(create_rules, register_command_templates, sql)

\* ------------------------------------------------------------------------
\* The extractors of a WHERE clause, applied to expression trees
\* ------------------------------------------------------------------------

DoubleQuotedString(s) == [t |-> "DoubleQuotedString", s |-> s]

S_SCORE == <<"S","C","O","R","E">>

Or(l, r) == BinaryOp(l, "Or", r)

Cmp(name, op, lit) == BinaryOp(Identifier(name), op, lit)

\* comparisons of `key`: four with a string or number literal (each with its
\* own text), and four that are no `key = literal` equality
KeyLeaves ==
    {Eq(S_key, Str(K1)), Eq(S_key, Num(S_7)), Eq(S_KEY, Str(V1)),
     Eq(S_key, Value(DoubleQuotedString(M1))),
     Eq(S_key, Identifier(K1)), Eq(S_key, Value(Boolean(TRUE))),
     Cmp(S_key, "Gt", Num(S_10)), BinaryOp(Num(S_7), "Eq", Identifier(S_key))}

\* comparisons of `score`: the four range operators, and five that give no range
ScoreLeaves ==
    {Cmp(S_score, "Gt", Num(S_1000)), Cmp(S_score, "GtEq", Num(S_10)),
     Cmp(S_score, "Lt", Num(S_7)), Cmp(S_score, "LtEq", Num(S_0)),
     Cmp(S_SCORE, "Gt", Num(S_7)),
     Eq(S_score, Num(S_7)), Cmp(S_score, "NotEq", Num(S_7)),
     Cmp(S_score, "Gt", Str(V1)), Cmp(S_score, "Lt", Identifier(S_name)),
     Cmp(S_name, "Gt", Num(S_7))}

\* expressions that are neither
OtherLeaves == {Eq(S_index, Num(S_0)), Identifier(S_key), Num(S_7)}

Leaves == KeyLeaves \cup ScoreLeaves \cup OtherLeaves

\* the operands of the three-operand trees
InnerLeaves ==
    {Eq(S_key, Str(K1)), Eq(S_key, Num(S_7)), Eq(S_key, Identifier(K1)),
     Cmp(S_score, "Gt", Num(S_1000)), Cmp(S_score, "Lt", Num(S_7)),
     Eq(S_index, Num(S_0))}

\* one comparison, two under AND or OR, three under nested AND and OR
WhereClauses ==
    Leaves
    \cup {And(a, b) : a \in Leaves, b \in Leaves}
    \cup {Or(a, b) : a \in Leaves, b \in Leaves}
    \cup {And(And(a, b), c) : a \in InnerLeaves, b \in InnerLeaves, c \in InnerLeaves}
    \cup {And(a, And(b, c)) : a \in InnerLeaves, b \in InnerLeaves, c \in InnerLeaves}
    \cup {And(Or(a, b), c) : a \in InnerLeaves, b \in InnerLeaves, c \in InnerLeaves}
    \cup {And(a, Or(b, c)) : a \in InnerLeaves, b \in InnerLeaves, c \in InnerLeaves}
    \cup {Or(And(a, b), c) : a \in InnerLeaves, b \in InnerLeaves, c \in InnerLeaves}

\* the WHERE clause of the statement under study
Where == Stmt.body.selection

ExtractInit ==
    /\ rules = [t \in Transformers |-> create_rules]
    /\ templates = [t \in Transformers |-> register_command_templates]
    /\ sql \in {Parsed(<<SelectOf(<<Wildcard>>, T_zset, Some(e), None, None)>>) :
                   e \in WhereClauses}
    /\ result = NoResult
    /\ firstResult = NoResult
    /\ other = NoResult
    /\ calls = 0
    /\ pc = [c \in Callers |-> 0]
    /\ returned = [c \in Callers |-> NoResult]
    /\ operands = NoResult

\* every extractor of a key and of a score range applied to the one WHERE
\* clause, as the clause of a SELECT, of an UPDATE and of a DELETE
ApplyExtractors ==
    /\ other = NoResult
    /\ other' =
          [tag |-> "Extracted",
           key |-> extract_key_from_condition(Where.v),
           sel_key |-> sel_get_key_value(Where),
           upd_key |-> upd_get_key_value(
                          Update(Table(<<T_zset>>), <<Set(S_value, Str(V1))>>, Where)),
           del_key |-> delete_get_key_value(
                          Delete(<<>>, <<Table(<<T_zset>>)>>, Where)),
           range |-> extract_score_range(Where.v),
           sel_range |-> sel_get_score_range(Where),
           pat_range |-> score_range(Where.v)]
    /\ UNCHANGED <<rules, templates, sql, result, firstResult, calls, pc, returned, operands>>

ExtractSpec == ExtractInit /\ [][ApplyExtractors]_vars

Extracted == other # NoResult /\ other.tag = "Extracted"

RECURSIVE AndOperands(_)
\* the expressions reached from the root through AND nodes only, left to right
AndOperands(e) ==
    IF e.t = "BinaryOp" /\ e.op = "And"
    THEN AndOperands(e.left) \o AndOperands(e.right)
    ELSE <<e>>

\* the positions in a list of expressions that are `key = literal`
KeyEqualities(es) == {i \in 1..Len(es) : IsKeyEquals(es[i])}

\* the literal of the leftmost `key = literal` among the AND operands
LeftmostKeyLiteral(e) ==
    LET es == AndOperands(e)
        hits == KeyEqualities(es)
    IN  IF hits = {} THEN None
        ELSE Some(LiteralOf(es[CHOOSE i \in hits : \A j \in hits : i <= j]))

\* C21: for every expression tree extract_key_from_condition returns the
\* literal text of the leftmost `key = literal` equality reachable through
\* AND nodes only (identifier compared case-insensitively, literal a number
\* or a quoted string), and None when no such equality is reachable.
C21_LeftmostKeyEquality ==
    Extracted => other.key = LeftmostKeyLiteral(Where.v)

\* a nested conjunction whose first operand is no key equality and which
\* holds two key equalities with different literals: the left one is returned
C21_Witness ==
    /\ Extracted
    /\ Where.v.t = "BinaryOp" /\ Where.v.op = "And"
    /\ Where.v.left.t = "BinaryOp" /\ Where.v.left.op = "And"
    /\ LET es == AndOperands(Where.v) IN
       /\ Len(es) = 3
       /\ KeyEqualities(es) = {2, 3}
       /\ LiteralOf(es[2]) # LiteralOf(es[3])
       /\ other.key = Some(LiteralOf(es[2]))

\* the first ORDER BY term of a query is `score` with an explicit DESC
FirstTermIsScoreDesc(stmt) ==
    /\ stmt.kind = "Query"
    /\ stmt.order_by.some
    /\ stmt.order_by.v # <<>>
    /\ stmt.order_by.v[1].expr.t = "Identifier"
    /\ to_lowercase(stmt.order_by.v[1].expr.value) = S_score
    /\ stmt.order_by.v[1].asc = Some(FALSE)

\* C22: on the registry path has_order_by_score_desc is true exactly when the
\* first ORDER BY term is the identifier score with an explicit DESC: false
\* when score DESC is only a later term, false for ASC or no direction.
C22_FirstOrderByTerm ==
    (Called /\ HasStmt) => (has_order_by_score_desc(Stmt) <=> FirstTermIsScoreDesc(Stmt))

\* the expression is a conjunction
IsAnd(e) == e.t = "BinaryOp" /\ e.op = "And"

\* the expression is `score op N` with this operator and a number literal N
IsScoreOp(e, op) ==
    /\ e.t = "BinaryOp"
    /\ e.op = op
    /\ e.left.t = "Identifier"
    /\ to_lowercase(e.left.value) = S_score
    /\ e.right.t = "Value"
    /\ e.right.value.t = "Number"

\* C23: on a conjunction L AND R extract_score_range returns (min of L's
\* result, max of R's result) when both sides yield a range, the single range
\* when only one side yields one, and None when neither does; so
\* `score > a AND score < b` gives ("(a", "(b") and `score < b AND score > a`
\* gives ("-inf", "+inf").
C23_ConjunctionRange ==
    (Extracted /\ IsAnd(Where.v)) =>
        LET L == extract_score_range(Where.v.left)
            R == extract_score_range(Where.v.right)
        IN  /\ (L.some /\ R.some) => other.range = Some(<<L.v[1], R.v[2]>>)
            /\ (L.some /\ ~R.some) => other.range = L
            /\ (~L.some /\ R.some) => other.range = R
            /\ (~L.some /\ ~R.some) => other.range = None
            /\ (IsScoreOp(Where.v.left, "Gt") /\ IsScoreOp(Where.v.right, "Lt")) =>
                  other.range = Some(<<S_lparen \o LiteralOf(Where.v.left),
                                       S_lparen \o LiteralOf(Where.v.right)>>)
            /\ (IsScoreOp(Where.v.left, "Lt") /\ IsScoreOp(Where.v.right, "Gt")) =>
                  other.range = Some(<<S_minf, S_pinf>>)

\* `score > 1000 AND score < 7` has been given the range ("(1000", "(7")
C23_Witness ==
    /\ Extracted
    /\ Where.v = And(Cmp(S_score, "Gt", Num(S_1000)), Cmp(S_score, "Lt", Num(S_7)))
    /\ other.range = Some(<<S_lparen \o S_1000, S_lparen \o S_7>>)

\* the expression is one comparison, not a conjunction or disjunction
IsComparison(e) == e.t = "BinaryOp" /\ e.op \notin {"And", "Or"}

\* the range the comparison stands for, if it is `score op N`
ExpectedRange(e) ==
    IF IsScoreComparison(e) THEN Some(RangeOf(e.op, LiteralOf(e))) ELSE None

\* C24: for a single comparison `score op N` with a number N,
\* sel_get_score_range, the score_range pattern and extract_score_range all
\* return ("(N", "+inf") for >, ("N", "+inf") for >=, ("-inf", "(N") for <
\* and ("-inf", "N") for <=; for another operator, another identifier or a
\* literal that is no number none of them returns a range.
C24_SingleComparisonRange ==
    (Extracted /\ IsComparison(Where.v)) =>
        /\ other.sel_range = ExpectedRange(Where.v)
        /\ other.pat_range = ExpectedRange(Where.v)
        /\ other.range = ExpectedRange(Where.v)

\* `score >= 10` has been given the range ("10", "+inf") by all three
C24_Witness ==
    /\ Extracted
    /\ Where.v = Cmp(S_score, "GtEq", Num(S_10))
    /\ other.sel_range = Some(<<S_10, S_pinf>>)
    /\ other.pat_range = Some(<<S_10, S_pinf>>)
    /\ other.range = Some(<<S_10, S_pinf>>)

\* the variables a template refers to
TemplateVars(tpl) == {tpl[i].name : i \in {j \in 1..Len(tpl) : tpl[j].t = "Var"}}

\* the rules of a registry whose template the engine holds
WithTemplate(rs, tpls) == {i \in 1..Len(rs) : rs[i].template_name \in DOMAIN tpls}

\* C25: whenever the context builder of a rule returns a context for a
\* statement, the context defines every variable of the rule's template; a
\* builder that lacks a required value returns None, never a context with a
\* variable missing.
C25_ContextsAreComplete ==
    (Called /\ HasStmt) =>
        \A t \in Transformers :
            \A i \in WithTemplate(rules[t], templates[t]) :
                \A c \in get_context(rules[t][i], Stmt) :
                    c.some =>
                        TemplateVars(templates[t][rules[t][i].template_name])
                            \subseteq DOMAIN c.v

\* the rule of zset_add, a template of three variables, has matched an INSERT
\* and built the context the command was rendered from
C25_Witness ==
    /\ Called
    /\ HasStmt
    /\ result.tag = "Ok"
    /\ Applicable(rules[1], Stmt) # {}
    /\ LET r == rules[1][Lowest(Applicable(rules[1], Stmt))] IN
       /\ r.template_name = "zset_add"
       /\ TemplateVars(templates[1][r.template_name]) = {"key", "score", "member"}
       /\ \E c \in get_context(r, Stmt) : c.some /\ DOMAIN c.v = {"key", "score", "member"}

\* ------------------------------------------------------------------------
\* pattern/combinators.rs: a pattern is a closure or one of the combinator
\* structs; match_pattern is the trait method, one case per implementation
\* ------------------------------------------------------------------------

\* MatchResult<T> = Result<T, ()>
MatchOk(v) == [ok |-> TRUE, v |-> v]

MatchErr == [ok |-> FALSE]

\* a closure Fn(&I) -> MatchResult<O>, given by its value on every input
Closure(f) == [t |-> "Closure", f |-> f]

\* tries the second pattern before the first
or_second_first(first, second) == [t |-> "Or", first |-> second, second |-> first]

or(first, second) == [t |-> "Or", first |-> first, second |-> second]

\* the `|` of two boxed patterns: a boxed closure that holds both
bitor(self, rhs) == [t |-> "BitOr", self |-> self, other |-> rhs]

always(value) == [t |-> "Always", value |-> value]

never == [t |-> "Never"]

RECURSIVE match_pattern(_, _)
match_pattern(p, input) ==
    CASE p.t = "Closure" -> p.f[input]
      [] p.t = "Or" ->
            IF match_pattern(p.first, input).ok
            THEN match_pattern(p.first, input)
            ELSE match_pattern(p.second, input)
      [] p.t = "BitOr" ->
            IF match_pattern(p.self, input).ok
            THEN match_pattern(p.self, input)
            ELSE match_pattern(p.other, input)
      [] p.t = "Always" -> MatchOk(p.value)
      [] p.t = "Never" -> MatchErr

\* the inputs and the outputs of the patterns under study
PatternInputs == {"x1", "x2"}

PatternOutputs == {"a", "b"}

MatchResults == {MatchErr} \cup {MatchOk(v) : v \in PatternOutputs}

\* every closure over the inputs, every always(v), and never
Patterns ==
    {Closure(f) : f \in [PatternInputs -> MatchResults]}
    \cup {always(v) : v \in PatternOutputs}
    \cup {never}

CombinatorInit ==
    /\ rules = [t \in Transformers |-> create_rules]
    /\ templates = [t \in Transformers |-> register_command_templates]
    /\ sql = ParseFailure
    /\ result = NoResult
    /\ firstResult = NoResult
    /\ other = NoResult
    /\ calls = 0
    /\ pc = [c \in Callers |-> 0]
    /\ returned = [c \in Callers |-> NoResult]
    /\ operands \in [p : Patterns, q : Patterns, r : Patterns,
                     v : PatternOutputs, x : PatternInputs]

\* the combinations of p, q, r and v are built and matched against x
ApplyCombinators ==
    /\ other = NoResult
    /\ LET p == operands.p
           q == operands.q
           r == operands.r
           x == operands.x
       IN  other' =
              [tag |-> "Matched",
               p |-> match_pattern(p, x),
               q |-> match_pattern(q, x),
               r |-> match_pattern(r, x),
               or_pq |-> match_pattern(or(p, q), x),
               bitor_pq |-> match_pattern(bitor(p, q), x),
               or_left |-> match_pattern(or(or(p, q), r), x),
               or_right |-> match_pattern(or(p, or(q, r)), x),
               or_never_p |-> match_pattern(or(never, p), x),
               or_p_never |-> match_pattern(or(p, never), x),
               always_v |-> match_pattern(always(operands.v), x)]
    /\ UNCHANGED <<rules, templates, sql, result, firstResult, calls, pc, returned, operands>>

CombinatorSpec == CombinatorInit /\ [][ApplyCombinators]_vars

Matched == other # NoResult /\ other.tag = "Matched"

\* C26: for all patterns p, q, r and every input x, or(or(p,q),r) and
\* or(p,or(q,r)) give the same result; or(never,p) and or(p,never) give the
\* result of p; always(v) succeeds with v; and p | q on boxed patterns gives
\* the result of or(p,q).
C26_CombinatorLaws ==
    Matched =>
        /\ other.or_left = other.or_right
        /\ other.or_never_p = other.p
        /\ other.or_p_never = other.p
        /\ other.always_v = MatchOk(operands.v)
        /\ other.bitor_pq = other.or_pq

\* p fails on x, q and r succeed with different values: both groupings and
\* p | q give the value of q
C26_Witness ==
    /\ Matched
    /\ ~other.p.ok
    /\ other.q.ok /\ other.r.ok /\ other.q # other.r
    /\ other.or_left = other.q
    /\ other.or_right = other.q
    /\ other.bitor_pq = other.q

\* ------------------------------------------------------------------------
\* generate_command applied to statements
\* ------------------------------------------------------------------------

\* the statements of the registry runs, and INSERTs with an index column
GenerateStatements ==
    Statements
    \cup {InsertOf(tb, cols, rows) :
             tb \in KindTables,
             cols \in {<<S_key, S_index, S_value>>, <<S_value, S_index, S_key>>,
                       <<S_key, S_index, S_member>>},
             rows \in RowsOf(3)}

GenerateInit ==
    /\ rules = [t \in Transformers |-> create_rules]
    /\ templates = [t \in Transformers |-> register_command_templates]
    /\ sql \in {Parsed(<<s>>) : s \in GenerateStatements}
    /\ result = NoResult
    /\ firstResult = NoResult
    /\ other = NoResult
    /\ calls = 0
    /\ pc = [c \in Callers |-> 0]
    /\ returned = [c \in Callers |-> NoResult]
    /\ operands = NoResult

\* generate_command(&stmt): one of the results it can have
GenerateCommand ==
    /\ other = NoResult
    /\ \E g \in generate_command(Stmt) : other' = [tag |-> "Generated", command |-> g]
    /\ UNCHANGED <<rules, templates, sql, result, firstResult, calls, pc, returned, operands>>

GenerateSpec == GenerateInit /\ [][GenerateCommand]_vars

Generated == other # NoResult /\ other.tag = "Generated"

HasColumn(stmt, c) == \E i \in 1..Len(stmt.columns) : stmt.columns[i] = c

\* the field, value pairs of the columns at the positions p[1], p[2], ...
PairsInOrder(stmt, p, n) ==
    [i \in 1..(2 * n) |->
        IF i % 2 = 1
        THEN stmt.columns[p[(i + 1) \div 2]]
        ELSE stmt.source.v.body.rows[1][p[i \div 2]].value.s]

\* C27: for a single-row INSERT with a `key` column and literal values
\* generate_command returns SET K value (string table), HMSET K and one
\* field, value pair for every other column, each field followed by its own
\* value (hash table), LSET K index value with an index column and RPUSH K
\* value without one (list table), SADD K member (set table), ZADD K score
\* member (sorted-set table), and no command when the column the kind
\* requires is missing.
C27_GeneratedInsert ==
    (/\ Generated
     /\ IsSingleRowInsert(Stmt)
     /\ HasColumn(Stmt, S_key)
     /\ \A i, j \in 1..Len(Stmt.columns) : i # j => Stmt.columns[i] # Stmt.columns[j]) =>
        LET kind == KindOfName(Stmt.table.name[1])
            K == ColumnLiteral(Stmt, S_key)
            has(c) == HasColumn(Stmt, c)
            lit(c) == ColumnLiteral(Stmt, c)
            n == Cardinality(FieldPositions(Stmt))
        IN  CASE kind = "String" ->
                    IF has(S_value)
                    THEN other.command = Some(Cmd(<<<<"S","E","T">>, K, lit(S_value)>>))
                    ELSE other.command = None
              [] kind = "Hash" ->
                    \E p \in PairOrders(FieldPositions(Stmt)) :
                        other.command =
                            Some(Cmd(<<<<"H","M","S","E","T">>, K>> \o PairsInOrder(Stmt, p, n)))
              [] kind = "List" ->
                    IF has(S_value) /\ has(S_index)
                    THEN other.command =
                            Some(Cmd(<<<<"L","S","E","T">>, K, lit(S_index), lit(S_value)>>))
                    ELSE IF has(S_value)
                    THEN other.command = Some(Cmd(<<<<"R","P","U","S","H">>, K, lit(S_value)>>))
                    ELSE other.command = None
              [] kind = "Set" ->
                    IF has(S_member)
                    THEN other.command = Some(Cmd(<<<<"S","A","D","D">>, K, lit(S_member)>>))
                    ELSE other.command = None
              [] kind = "SortedSet" ->
                    IF has(S_member) /\ has(S_score)
                    THEN other.command =
                            Some(Cmd(<<<<"Z","A","D","D">>, K, lit(S_score), lit(S_member)>>))
                    ELSE other.command = None

\* an INSERT into a list table with the columns value, index, key has been
\* given LSET with the key first, then the index, then the value
C27_Witness ==
    /\ Generated
    /\ sql = Parsed(<<InsertOf(T_list, <<S_value, S_index, S_key>>,
                               << <<Str(K1), Str(V1), Num(S_7)>> >>)>>)
    /\ other.command = Some(Cmd(<<<<"L","S","E","T">>, S_7, V1, K1>>))

\* C28: every template name of a rule of the registry is registered in the
\* template engine, so that for a statement that parses transform never
\* returns a TemplateError for a missing template.
C28_TemplatesRegistered ==
    (Called /\ HasStmt) =>
        /\ \A t \in Transformers :
              \A i \in 1..Len(rules[t]) : rules[t][i].template_name \in DOMAIN templates[t]
        /\ result # TemplateError("TemplateNotFound")

\* the rules of a registry that match the statement and build no context
Skipped(rs, stmt) ==
    {i \in 1..Len(rs) : matches(rs[i], stmt) /\ \A c \in get_context(rs[i], stmt) : ~c.some}

\* C29: for every rule of the registry and every statement, if the rule's
\* predicate is true then the rule's context builder returns a context, so
\* that a matched rule is never passed over for lack of a context.
C29_MatchedRuleBuildsContext ==
    (Called /\ HasStmt) => \A t \in Transformers : Skipped(rules[t], Stmt) = {}

\* C30: for every WHERE clause the key extractors of the registry path
\* (sel_get_key_value, upd_get_key_value, delete::get_key_value) return what
\* extract_key_from_condition returns; each finds `key = K` when it is one
\* operand of an AND.
C30_KeyExtractorsAgree ==
    Extracted =>
        /\ other.sel_key = other.key
        /\ other.upd_key = other.key
        /\ other.del_key = other.key

====
